---- MODULE Spec2Model ----
(***************************************************************************)
(* Model of the content extractor (lib/extractor.ts): the text cleaner,    *)
(* the noise filter, the content container selector, the heading section   *)
(* extractor, the element content formatter and the fallback extractor,    *)
(* run as the pipeline of extractSEOContent over a parsed document tree,   *)
(* and the POST handler of the API route (app/api/extract/route.ts) that   *)
(* calls it, and the state of the page component (app/page.tsx) that sends  *)
(* the requests.                                                           *)
(*                                                                         *)
(* Strings are sequences of one-character strings, so that the regular     *)
(* expressions of the source are computed character by character.          *)
(***************************************************************************)
EXTENDS Integers, Sequences, FiniteSets, TLC

VARIABLES
  pc,               \* position inside POST and extractSEOContent
  request,          \* None (extractSEOContent called directly) or Some(the POST request)
  response,         \* None or Some(the response of POST)
  html,             \* the fetched page, as the tree it parses to
  status,           \* the HTTP status of the fetched response, 0 when fetch rejects
  doc,              \* the parsed tree $ (preorder sequence of nodes)
  metaTitle,        \* None or Some(string)
  metaDescription,  \* None or Some(string)
  container,        \* $contentContainer: a node index of doc, 0 = empty selection
  headings,         \* sequence of [level, text, content]
  fallbackContent,  \* None or Some([source, text])
  result,           \* None, Some(the returned record) or Some(the error thrown)
  removed,          \* number of nodes removed by each noise-filter pass so far
  unsupported,      \* positions in NOISE_SELECTORS of the selectors $() throws on
  text,             \* text-cleaner harness: the input string
  cleaned,          \* text-cleaner harness: results of successive cleanText calls
  home,             \* the state of Home: [url, loading, error, results]
  calls,            \* the calls of handleSubmit that await fetch or response.json()
  submits           \* number of submissions so far

vars == <<pc, request, response, html, status, doc, metaTitle, metaDescription, container, headings,
          fallbackContent, result, removed, unsupported, text, cleaned,
          home, calls, submits>>

----------------------------------------------------------------------------
(* Strings *)

\* A TLA+ string literal as a sequence of characters.
S(str) == [i \in 1..Len(str) |-> SubSeq(str, i, i)]

None == <<>>
Some(v) == <<v>>

\* The characters matched by \s (and stripped by trim) that the inputs use.
WS == {" ", "\t", "\n"}

Digits == {"0", "1", "2", "3", "4", "5", "6", "7", "8", "9"}

Upper == S("ABCDEFGHIJKLMNOPQRSTUVWXYZ")
Lower == S("abcdefghijklmnopqrstuvwxyz")

toLowerChar(c) ==
  IF \E k \in 1..26 : Upper[k] = c
    THEN Lower[CHOOSE k \in 1..26 : Upper[k] = c]
    ELSE c

toLowerCase(s) == [i \in 1..Len(s) |-> toLowerChar(s[i])]

\* s has the literal lit at position i (case-insensitively when ci).
HasAt(s, i, lit, ci) ==
  /\ i >= 1
  /\ i + Len(lit) - 1 <= Len(s)
  /\ \A k \in 1..Len(lit) :
       (IF ci THEN toLowerChar(s[i + k - 1]) ELSE s[i + k - 1]) = lit[k]

\* String.prototype.includes
includes(s, lit) == \E i \in 1..(Len(s) - Len(lit) + 1) : HasAt(s, i, lit, FALSE)

\* The members of s at the positions lo..hi that are in keep, in order
\* (halving the range keeps the evaluation shallow on long strings).
RECURSIVE KeepRange(_, _, _, _)
KeepRange(s, keep, lo, hi) ==
  IF lo > hi THEN <<>>
  ELSE IF lo = hi THEN (IF lo \in keep THEN <<s[lo]>> ELSE <<>>)
  ELSE LET mid == (lo + hi) \div 2
       IN  KeepRange(s, keep, lo, mid) \o KeepRange(s, keep, mid + 1, hi)

\* The members of s at the positions in keep, from position i on, in order.
KeepFrom(s, keep, i) == KeepRange(s, keep, i, Len(s))

\* The slip replace(/\s*/g, ' '): the empty match before every other
\* character and at the end of the string is replaced by a space as well.
RECURSIVE SpaceOut(_, _)
SpaceOut(s, i) ==
  IF i > Len(s) THEN <<" ">>
  ELSE IF s[i] \in WS
    THEN (IF i = 1 \/ s[i - 1] \notin WS THEN <<" ">> ELSE <<>>) \o SpaceOut(s, i + 1)
    ELSE <<" ", s[i]>> \o SpaceOut(s, i + 1)

collapseWhitespaceStar(s) == SpaceOut(s, 1)

\* replace(/\s+/g, ' '): every maximal run of whitespace becomes one space.
collapseWhitespace(s) ==
  LET piece(i) == IF s[i] \in WS THEN " " ELSE s[i]
      keep == {i \in 1..Len(s) : s[i] \notin WS \/ i = 1 \/ s[i - 1] \notin WS}
  IN  KeepFrom([i \in 1..Len(s) |-> piece(i)], keep, 1)

\* String.prototype.trim
trimIdentity(s) == s

trim(s) ==
  LET nonWs == {i \in 1..Len(s) : s[i] \notin WS}
  IN  IF nonWs = {} THEN <<>>
      ELSE SubSeq(s, CHOOSE i \in nonWs : \A j \in nonWs : i <= j,
                     CHOOSE i \in nonWs : \A j \in nonWs : i >= j)

\* Length of the run of digits of s that starts at position i.
RECURSIVE DigitRun(_, _)
DigitRun(s, i) ==
  IF i <= Len(s) /\ s[i] \in Digits THEN 1 + DigitRun(s, i + 1) ELSE 0

\* Length of the match of lit at i, 0 when there is none.
LitMatch(s, i, lit, ci) == IF HasAt(s, i, lit, ci) THEN Len(lit) ELSE 0

\* Length of the match of  prefix \d+ \]  at i, 0 when there is none.
NumMatch(s, i, prefix, ci) ==
  LET n == DigitRun(s, i + Len(prefix))
  IN  IF HasAt(s, i, prefix, ci) /\ n > 0 /\ HasAt(s, i + Len(prefix) + n, <<"]">>, FALSE)
        THEN Len(prefix) + n + 1
        ELSE 0

\* replace(re, '') for a global regular expression whose matches start with
\* "[", end with "]" and hold no bracket in between: matches cannot overlap,
\* so the result keeps exactly the characters no match covers.
\* matchLen[i] is the length of the match starting at i (0: none).
StripMatches(s, matchLen) ==
  LET covered == {i \in 1..Len(s) :
                    \E p \in 1..i : matchLen[p] > 0 /\ i < p + matchLen[p]}
  IN  IF \A p \in 1..Len(s) : matchLen[p] = 0 THEN s
      ELSE KeepFrom(s, (1..Len(s)) \ covered, 1)

stripEdit(s) ==
  StripMatches(s, [i \in 1..Len(s) |-> LitMatch(s, i, S("[edit]"), TRUE)])

stripCitationNeeded(s) ==
  StripMatches(s, [i \in 1..Len(s) |-> LitMatch(s, i, S("[citation needed]"), TRUE)])

stripNote(s) ==
  StripMatches(s, [i \in 1..Len(s) |-> NumMatch(s, i, S("[note "), TRUE)])

stripRefNumber(s) ==
  StripMatches(s, [i \in 1..Len(s) |-> NumMatch(s, i, S("["), FALSE)])

cleanText(s) ==
  trim(stripRefNumber(stripNote(stripCitationNeeded(stripEdit(collapseWhitespace(s))))))

----------------------------------------------------------------------------
(* The parsed tree *)

\* A document is the sequence of its nodes in document (preorder) order; a
\* node carries its depth d, so that the parent of node i is the nearest
\* earlier node of depth d - 1.  An attribute is None when absent and
\* Some(value) when present.  A text node has tag "#text" and data txt.
AttrNames ==
  {"class", "id", "role", "hidden", "style", "aria-hidden", "href",
   "name", "property", "content"}

El(tag) ==
  [a \in AttrNames |-> None] @@ [d |-> 0, tag |-> tag, txt |-> <<>>]

Txt(str) == [El("#text") EXCEPT !.txt = S(str)]

\* attr(name) || ''
AttrOr(n, a) == IF n[a] = None THEN <<>> ELSE n[a][1]

IsElement(t, i) == t[i].tag # "#text"

\* Last node of the subtree rooted at i.
SubtreeEnd(t, i) ==
  LET later == {j \in (i + 1)..Len(t) : t[j].d <= t[i].d}
  IN  IF later = {} THEN Len(t)
      ELSE (CHOOSE j \in later : \A k \in later : j <= k) - 1

\* find('*') and the text nodes: every node below i.
Descendants(t, i) == (i + 1)..SubtreeEnd(t, i)

\* parent(): 0 when i is the root.
Parent(t, i) ==
  LET above == {j \in 1..(i - 1) : t[j].d = t[i].d - 1}
  IN  IF above = {} THEN 0 ELSE CHOOSE j \in above : \A k \in above : j >= k

\* parents(): the ancestors of i.
Ancestors(t, i) == {j \in 1..(i - 1) : i <= SubtreeEnd(t, j)}

\* children(): the element children of i.
Children(t, i) == {j \in Descendants(t, i) : t[j].d = t[i].d + 1 /\ IsElement(t, j)}

\* next(): the next element sibling of i, 0 when there is none.
NextSibling(t, i) ==
  LET sibs == {j \in (SubtreeEnd(t, i) + 1)..Len(t) :
                 /\ IsElement(t, j)
                 /\ t[j].d = t[i].d
                 /\ \A k \in (i + 1)..j : t[k].d >= t[i].d}
  IN  IF sibs = {} THEN 0 ELSE CHOOSE j \in sibs : \A k \in sibs : j <= k

\* The members of a set of node indices in document order.
RECURSIVE InOrder(_)
InOrder(set) ==
  IF set = {} THEN <<>>
  ELSE LET m == CHOOSE j \in set : \A k \in set : j <= k
       IN  <<m>> \o InOrder(set \ {m})

\* Concatenation of the data of the text nodes among the nodes in set.
RECURSIVE ConcatText(_, _)
ConcatText(t, order) ==
  IF order = <<>> THEN <<>> ELSE t[Head(order)].txt \o ConcatText(t, Tail(order))

\* text(): the text of every text node at or below i.
Text(t, i) ==
  ConcatText(t, InOrder({j \in i..SubtreeEnd(t, i) : ~IsElement(t, j)}))

\* remove() on the selection sel: the tree without the subtrees rooted in sel.
Remove(t, sel) ==
  LET gone == {j \in 1..Len(t) : \E i \in sel : i <= j /\ j <= SubtreeEnd(t, i)}
  IN  IF gone = {} THEN t ELSE KeepFrom(t, (1..Len(t)) \ gone, 1)

----------------------------------------------------------------------------
(* Selectors *)

Tag(tag) == [kind |-> "tag", a |-> tag, v |-> <<>>]
Cls(c) == [kind |-> "class", a |-> "class", v |-> S(c)]
Id(c) == [kind |-> "attrEq", a |-> "id", v |-> S(c)]
AttrEq(a, c) == [kind |-> "attrEq", a |-> a, v |-> S(c)]
AttrSub(a, c) == [kind |-> "attrSub", a |-> a, v |-> S(c)]
AttrHas(a) == [kind |-> "attrHas", a |-> a, v |-> <<>>]
ChildCls(p, c) == [kind |-> "childClass", a |-> p, v |-> S(c)]

\* The class attribute value cls has the token c.
HasClass(cls, c) ==
  \E i \in 1..(Len(cls) - Len(c) + 1) :
    /\ HasAt(cls, i, c, FALSE)
    /\ (i = 1 \/ cls[i - 1] \in WS)
    /\ (i + Len(c) > Len(cls) \/ cls[i + Len(c)] \in WS)

\* Element i of t matches the selector sel.
Matches(t, i, sel) ==
  /\ IsElement(t, i)
  /\ CASE sel.kind = "tag" -> t[i].tag = sel.a
        [] sel.kind = "class" -> t[i].class # None /\ HasClass(t[i].class[1], sel.v)
        [] sel.kind = "attrEq" -> t[i][sel.a] = Some(sel.v)
        [] sel.kind = "attrSub" -> t[i][sel.a] # None /\ includes(t[i][sel.a][1], sel.v)
        [] sel.kind = "attrHas" -> t[i][sel.a] # None
        [] sel.kind = "childClass" ->
             /\ t[i].class # None /\ HasClass(t[i].class[1], sel.v)
             /\ Parent(t, i) # 0
             /\ t[Parent(t, i)].class # None
             /\ HasClass(t[Parent(t, i)].class[1], S(sel.a))

\* $(selector): the elements of t matching sel.
Select(t, sel) == {i \in 1..Len(t) : Matches(t, i, sel)}

\* $(a, b, ...): the elements matching any selector of the list.
SelectAny(t, sels) == {i \in 1..Len(t) : \E k \in 1..Len(sels) : Matches(t, i, sels[k])}

----------------------------------------------------------------------------
(* Noise removal *)

NOISE_SELECTORS ==
  << Tag("nav"), Tag("footer"), Tag("header"), Tag("aside"), Tag("noscript"),
     Tag("script"), Tag("style"), Tag("iframe"), Tag("svg"),
     AttrEq("role", "navigation"), AttrEq("role", "banner"),
     AttrEq("role", "contentinfo"), AttrEq("role", "complementary"),
     Cls("nav"), Cls("navbar"), Cls("navigation"), Cls("menu"), Cls("sidebar"),
     Cls("footer"), Cls("header"),
     Cls("advertisement"), Cls("ad"), Cls("ads"), Cls("social-share"),
     Cls("social-links"), Cls("share-buttons"),
     Cls("cookie"), Cls("cookie-banner"), Cls("cookie-consent"), Cls("popup"),
     Cls("modal"), Cls("overlay"),
     Cls("breadcrumb"), Cls("breadcrumbs"), Cls("pagination"), Cls("pager"),
     Cls("comments"), Cls("comment-section"), Cls("related-posts"), Cls("recommended"),
     AttrSub("class", "cookie"), AttrSub("class", "popup"), AttrSub("class", "modal"),
     AttrSub("class", "banner"), AttrSub("class", "newsletter"),
     AttrSub("class", "subscribe"), AttrSub("class", "promo"),
     Cls("mw-editsection"), Cls("noprint"), Cls("navbox"), Cls("navbox-styles"),
     Cls("infobox"),
     Id("toc"), Cls("toc"), Cls("reference"), Cls("mw-jump-link"),
     Cls("mw-references-wrap"),
     Cls("interlanguage-link"), Cls("mw-indicator"),
     ChildCls("mw-parser-output", "hatnote"),
     AttrSub("href", "action=edit"), Cls("catlinks"), Cls("printfooter"),
     Id("siteSub"), Id("contentSub"),
     Cls("mw-heading-collapsible"), Cls("sidebar"), Id("mw-navigation"), Id("mw-panel"),
     Cls("vector-menu"), Cls("mw-portlet"), Id("p-lang-btn"),
     Cls("mw-interlanguage-selector"),
     Id("nav"), Id("navigation"), Id("menu"), Id("sidebar"), Id("footer"), Id("header"),
     Id("comments"), Id("related"), Id("advertisement") >>

noisePatterns ==
  << S("footer"), S("nav"), S("menu"), S("sidebar"), S("widget"), S("advertisement"),
     S("social"), S("share"), S("comment"), S("related"), S("recommended"), S("promo"),
     S("newsletter"), S("subscribe"), S("cookie"), S("gdpr"), S("consent") >>

\* The callback reading the id as well as the class.
IsNoiseClassOrId(n) ==
  \E v \in {AttrOr(n, "class"), AttrOr(n, "id")} :
    /\ \E k \in 1..Len(noisePatterns) : includes(toLowerCase(v), noisePatterns[k])
    /\ ~includes(toLowerCase(v), S("content"))

\* The body of the each() callback: the element's class names a noise
\* pattern and does not name "content".
IsNoiseClass(n) ==
  LET lowerClass == toLowerCase(AttrOr(n, "class"))
  IN  /\ \E k \in 1..Len(noisePatterns) : includes(lowerClass, noisePatterns[k])
      /\ ~includes(lowerClass, S("content"))

\* The forEach with one try around the whole loop: the first selector that
\* throws ends it.
RECURSIVE RemoveSelectorsUntilThrow(_, _, _)
RemoveSelectorsUntilThrow(t, sels, k) ==
  IF k > Len(sels) \/ k \in unsupported THEN t
  ELSE LET m == Select(t, sels[k])
       IN  IF m = {} THEN RemoveSelectorsUntilThrow(t, sels, k + 1)
           ELSE RemoveSelectorsUntilThrow(Remove(t, m), sels, k + 1)

\* NOISE_SELECTORS.forEach(selector => $(selector).remove()), from selector k
\* on; a selector that throws is caught and removes nothing.
RECURSIVE RemoveSelectors(_, _, _)
RemoveSelectors(t, sels, k) ==
  IF k > Len(sels) THEN t
  ELSE LET m == IF k \in unsupported THEN {} ELSE Select(t, sels[k])
       IN  IF m = {} THEN RemoveSelectors(t, sels, k + 1)
           ELSE RemoveSelectors(Remove(t, m), sels, k + 1)

\* Only the first match of every selector is removed.
RECURSIVE RemoveFirstOfSelectors(_, _, _)
RemoveFirstOfSelectors(t, sels, k) ==
  IF k > Len(sels) THEN t
  ELSE LET m == Select(t, sels[k])
       IN  IF m = {} THEN RemoveFirstOfSelectors(t, sels, k + 1)
           ELSE RemoveFirstOfSelectors(
                  Remove(t, {i \in m : \A j \in m : i <= j}), sels, k + 1)

removeNoiseElementsFirstOnly(t) ==
  LET t1 == RemoveFirstOfSelectors(t, NOISE_SELECTORS, 1)
      t2 == Remove(t1, {i \in Select(t1, AttrHas("class")) : IsNoiseClass(t1[i])})
      t3 == Remove(t2, Select(t2, AttrHas("hidden")))
      t4 == Remove(t3, Select(t3, AttrSub("style", "display: none")))
      t5 == Remove(t4, Select(t4, AttrSub("style", "display:none")))
  IN  Remove(t5, Select(t5, AttrEq("aria-hidden", "true")))

removeNoiseElements(t) ==
  LET t1 == RemoveSelectors(t, NOISE_SELECTORS, 1)
      t2 == Remove(t1, {i \in Select(t1, AttrHas("class")) : IsNoiseClass(t1[i])})
      t3 == Remove(t2, Select(t2, AttrHas("hidden")))
      t4 == Remove(t3, Select(t3, AttrSub("style", "display: none")))
      t5 == Remove(t4, Select(t4, AttrSub("style", "display:none")))
  IN  Remove(t5, Select(t5, AttrEq("aria-hidden", "true")))

----------------------------------------------------------------------------
(* Content container identification *)

CONTENT_CONTAINER_SELECTORS ==
  << Tag("main"), Tag("article"), AttrEq("role", "main"),
     Id("content"), Id("main-content"), Id("main"),
     Cls("content"), Cls("post"), Cls("article"), Cls("entry-content"),
     Cls("post-content"), Cls("article-content"), Cls("page-content"),
     Cls("main-content") >>

\* Phase A returns a candidate whose text is longer than this.
SemanticMinText == 100

\* Phase B skips an element whose text is shorter than this.
DensityMinText == 200

\* text().replace(/\s+/g, ' ').trim()
NormalizedText(t, i) == trim(collapseWhitespace(Text(t, i)))

getTextLength(t, i) == Len(NormalizedText(t, i))

\* $container.first() taken as it is, without the search for a longer match.
BestContainerFirst(t, sel) == CHOOSE i \in sel : \A j \in sel : i <= j

\* The first element of sel, in document order, whose text is the longest:
\* bestContainer starts as first() and is replaced only by a longer one.
BestContainer(t, sel) ==
  CHOOSE i \in sel :
    /\ \A j \in sel : getTextLength(t, j) <= getTextLength(t, i)
    /\ \A j \in sel : getTextLength(t, j) = getTextLength(t, i) => i <= j

RECURSIVE SumLengths(_, _)
SumLengths(t, order) ==
  IF order = <<>> THEN 0
  ELSE getTextLength(t, Head(order)) + SumLengths(t, Tail(order))

\* calculateLinkDensity as the pair <<link text length, total text length>>;
\* the density is their quotient, and 1 when the total is 0.
calculateLinkDensity(t, i) ==
  LET totalText == getTextLength(t, i)
      anchors == {j \in Descendants(t, i) : Matches(t, j, Tag("a"))}
  IN  IF totalText = 0 THEN <<1, 1>>
      ELSE <<SumLengths(t, InOrder(anchors)), totalText>>

\* linkDensity > 0.5
LinkDensityTooHigh(t, i) ==
  LET ld == calculateLinkDensity(t, i) IN 2 * ld[1] > ld[2]

\* Number of tags counted by calculateTextToTagRatio: find('*').length + 1.
TagCount(t, i) == Cardinality({j \in Descendants(t, i) : IsElement(t, j)}) + 1

VoidTags ==
  {"area", "base", "br", "col", "embed", "hr", "img", "input", "link", "meta",
   "param", "source", "track", "wbr"}

\* Length of the text str as markup: &, < and > are written as entities.
SerializedLen(str) ==
  Len(str) + 4 * Cardinality({i \in 1..Len(str) : str[i] = "&"})
           + 3 * Cardinality({i \in 1..Len(str) : str[i] \in {"<", ">"}})

RECURSIVE AttrsLen(_, _)
AttrsLen(n, names) ==
  IF names = {} THEN 0
  ELSE LET a == CHOOSE x \in names : TRUE
       IN  (IF n[a] = None THEN 0 ELSE 1 + Len(a) + 2 + Len(n[a][1]) + 1)
             + AttrsLen(n, names \ {a})

\* Length of the markup of node n without its children.
NodeHtmlLen(n) ==
  IF n.tag = "#text" THEN SerializedLen(n.txt)
  ELSE 1 + Len(n.tag) + AttrsLen(n, AttrNames) + 1
         + (IF n.tag \in VoidTags THEN 0 ELSE 2 + Len(n.tag) + 1)

RECURSIVE SumHtmlLen(_, _)
SumHtmlLen(t, order) ==
  IF order = <<>> THEN 0
  ELSE NodeHtmlLen(t[Head(order)]) + SumHtmlLen(t, Tail(order))

\* ($el.html() || '').length
HtmlLength(t, i) == SumHtmlLen(t, InOrder(Descendants(t, i)))

\* The regular expressions tested on className + id.
ContentNamePattern ==
  <<S("content"), S("article"), S("post"), S("entry"), S("body"), S("main")>>

SidebarNamePattern ==
  <<S("sidebar"), S("widget"), S("aside"), S("related"), S("popular"), S("trending")>>

IncludesAny(str, lits) == \E k \in 1..Len(lits) : includes(str, lits[k])

\* The score of a candidate, in millionths (the source computes it in
\* floating point; every step here is rounded down to a millionth).
Score(t, i) ==
  LET textLength == getTextLength(t, i)
      tagCount == TagCount(t, i)
      htmlLength == HtmlLength(t, i)
      lengthPart == IF textLength >= 5000 THEN 400000 ELSE 80 * textLength
      densityPart == (((300 * textLength) \div htmlLength) * 1000)
                       + ((((300 * textLength) % htmlLength) * 1000) \div htmlLength)
      ratioPart == IF textLength >= 50 * tagCount THEN 300000
                   ELSE (6000 * textLength) \div tagCount
      base == lengthPart + densityPart + ratioPart
      tagged == IF t[i].tag = "article" THEN (base * 3) \div 2
                ELSE IF t[i].tag = "main" THEN (base * 7) \div 5
                ELSE base
      names == toLowerCase(AttrOr(t[i], "class")) \o toLowerCase(AttrOr(t[i], "id"))
      named == IF IncludesAny(names, ContentNamePattern)
                 THEN (tagged * 13) \div 10 ELSE tagged
      depth == Cardinality(Ancestors(t, i))
      nested == (named * 20) \div (20 + depth)
  IN  IF IncludesAny(names, SidebarNamePattern) THEN (nested * 3) \div 10 ELSE nested

\* The elements scored when none is skipped for being too short.
CandidatesOfAnyLength(t) ==
  {i \in SelectAny(t, <<Tag("div"), Tag("section"), Tag("article"), Tag("main")>>) :
     /\ ~LinkDensityTooHigh(t, i)
     /\ HtmlLength(t, i) # 0}

\* The elements findHighestTextDensityElement scores.
Candidates(t) ==
  {i \in SelectAny(t, <<Tag("div"), Tag("section"), Tag("article"), Tag("main")>>) :
     /\ getTextLength(t, i) >= DensityMinText
     /\ ~LinkDensityTooHigh(t, i)
     /\ HtmlLength(t, i) # 0}

\* $('body'): 0 when the tree has no body left.
Body(t) ==
  LET b == Select(t, Tag("body"))
  IN  IF b = {} THEN 0 ELSE CHOOSE i \in b : \A j \in b : i <= j

\* The first candidate pushed is returned: the candidates are not sorted.
findFirstCandidate(t) ==
  LET cands == Candidates(t)
  IN  IF cands # {} THEN CHOOSE i \in cands : \A j \in cands : i <= j ELSE Body(t)

findHighestTextDensityElement(t) ==
  LET cands == Candidates(t)
      \* candidates.sort((a, b) => b.score - a.score)[0]: the sort is stable
      best == CHOOSE i \in cands :
                /\ \A j \in cands : Score(t, j) <= Score(t, i)
                /\ \A j \in cands : Score(t, j) = Score(t, i) => i <= j
  IN  IF cands # {} /\ Score(t, best) > 0 THEN best ELSE Body(t)

\* The loop over CONTENT_CONTAINER_SELECTORS from selector k on.
RECURSIVE SemanticContainerFrom(_, _)
SemanticContainerFrom(t, k) ==
  IF k > Len(CONTENT_CONTAINER_SELECTORS) THEN 0
  ELSE LET sel == Select(t, CONTENT_CONTAINER_SELECTORS[k])
       IN  IF sel # {} /\ getTextLength(t, BestContainer(t, sel)) > SemanticMinText
             THEN BestContainer(t, sel)
             ELSE SemanticContainerFrom(t, k + 1)

\* The semantic selectors are not tried at all.
findContentContainerByDensity(t) == findHighestTextDensityElement(t)

findContentContainer(t) ==
  LET semantic == SemanticContainerFrom(t, 1)
  IN  IF semantic # 0 THEN semantic ELSE findHighestTextDensityElement(t)

----------------------------------------------------------------------------
(* Element content formatting *)

\* The character U+2022 (bullet), one character of the output strings.
Bullet == "BULLET"

\* Array.prototype.join
RECURSIVE Join(_, _)
Join(strs, sep) ==
  IF strs = <<>> THEN <<>>
  ELSE IF Len(strs) = 1 THEN strs[1]
  ELSE strs[1] \o sep \o Join(Tail(strs), sep)

\* The decimal digits of a number n >= 0.
RECURSIVE Decimal(_)
Decimal(n) ==
  LET digit == S("0123456789")[(n % 10) + 1]
  IN  IF n < 10 THEN <<digit>> ELSE Decimal(n \div 10) \o <<digit>>

\* '  '.repeat(depth)
RECURSIVE Indent(_)
Indent(depth) == IF depth = 0 THEN <<>> ELSE S("  ") \o Indent(depth - 1)

ListTags == {"ul", "ol"}

\* The text of the item read without removing its nested lists.
TextWithLists(t, i) == Text(t, i)

\* $clone.find('ul, ol').remove(); $clone.text(): the text of i outside
\* every list below i.
TextOutsideLists(t, i) ==
  LET lists == {j \in Descendants(t, i) : t[j].tag \in ListTags}
      inList(j) == \E l \in lists : l <= j /\ j <= SubtreeEnd(t, l)
  IN  ConcatText(t, InOrder({j \in i..SubtreeEnd(t, i) : ~IsElement(t, j) /\ ~inList(j)}))

\* formatList: lis is the sequence of li children still to format, index the
\* position of its first member among the li children.
RECURSIVE FormatItems(_, _, _, _, _)
RECURSIVE FormatNested(_, _, _)
RECURSIVE formatList(_, _, _, _)

FormatNested(t, lists, depth) ==
  IF lists = <<>> THEN <<>>
  ELSE LET nestedContent == formatList(t, Head(lists), t[Head(lists)].tag = "ol", depth + 1)
       IN  (IF nestedContent # <<>> THEN <<nestedContent>> ELSE <<>>)
             \o FormatNested(t, Tail(lists), depth)

FormatItems(t, lis, index, isOrdered, depth) ==
  IF lis = <<>> THEN <<>>
  ELSE LET li == Head(lis)
           itemText == cleanText(TextOutsideLists(t, li))
           bullet == IF isOrdered THEN Decimal(index + 1) \o <<".">> ELSE <<Bullet>>
           nested == InOrder({j \in Children(t, li) : t[j].tag \in ListTags})
       IN  (IF itemText # <<>>
              THEN <<Indent(depth) \o bullet \o <<" ">> \o itemText>> ELSE <<>>)
             \o FormatNested(t, nested, depth)
             \o FormatItems(t, Tail(lis), index + 1, isOrdered, depth)

formatList(t, list, isOrdered, depth) ==
  Join(FormatItems(t, InOrder({j \in Children(t, list) : t[j].tag = "li"}),
                   0, isOrdered, depth),
       <<"\n">>)

\* cleanText($(cell).text()) of every cell of the sequence, the empty ones left out.
RECURSIVE CleanTexts(_, _)
CleanTexts(t, order) ==
  IF order = <<>> THEN <<>>
  ELSE LET str == cleanText(Text(t, Head(order)))
       IN  (IF str # <<>> THEN <<str>> ELSE <<>>) \o CleanTexts(t, Tail(order))

RECURSIVE TableRows(_, _)
TableRows(t, trs) ==
  IF trs = <<>> THEN <<>>
  ELSE LET cells == CleanTexts(t, InOrder({j \in Descendants(t, Head(trs)) :
                                             t[j].tag \in {"th", "td"}}))
       IN  (IF cells # <<>> THEN <<Join(cells, S(" | "))>> ELSE <<>>)
             \o TableRows(t, Tail(trs))

extractTableContent(t, table) ==
  Join(TableRows(t, InOrder({j \in Descendants(t, table) : t[j].tag = "tr"})),
       <<"\n">>)

RECURSIVE FormatLists(_, _)
FormatLists(t, lists) ==
  IF lists = <<>> THEN <<>>
  ELSE LET listContent == formatList(t, Head(lists), t[Head(lists)].tag = "ol", 0)
       IN  (IF listContent # <<>> THEN <<listContent>> ELSE <<>>)
             \o FormatLists(t, Tail(lists))

RECURSIVE DefinitionItems(_, _)
DefinitionItems(t, items) ==
  IF items = <<>> THEN <<>>
  ELSE LET str == cleanText(Text(t, Head(items)))
       IN  (IF str = <<>> THEN <<>>
            ELSE IF t[Head(items)].tag = "dt" THEN <<S("**") \o str \o S("**")>>
            ELSE <<S("  ") \o str>>)
             \o DefinitionItems(t, Tail(items))

TextContainerTags == {"p", "div", "section", "article", "blockquote", "figcaption"}

\* The fragments of element e, in order.
extractElementContent(t, e) ==
  LET tagName == t[e].tag
      lists == {j \in Descendants(t, e) : t[j].tag \in ListTags}
      paragraphs == {j \in Descendants(t, e) : t[j].tag = "p"}
      own == cleanText(TextOutsideLists(t, e))
      full == cleanText(Text(t, e))
      tableText == extractTableContent(t, e)
  IN  IF tagName \in ListTags
        THEN FormatLists(t, <<e>>)
      ELSE IF tagName \in TextContainerTags
        THEN IF lists # {}
               THEN (IF own # <<>> THEN <<own>> ELSE <<>>) \o FormatLists(t, InOrder(lists))
             ELSE IF paragraphs # {} /\ tagName # "p"
               THEN CleanTexts(t, InOrder(paragraphs))
             ELSE IF full # <<>> THEN <<full>> ELSE <<>>
      ELSE IF tagName = "dl"
        THEN DefinitionItems(t, InOrder({j \in Descendants(t, e) : t[j].tag \in {"dt", "dd"}}))
      ELSE IF tagName = "table"
        THEN IF tableText # <<>> THEN <<tableText>> ELSE <<>>
      ELSE <<>>

----------------------------------------------------------------------------
(* Heading extraction *)

\* parseInt(tagName.charAt(1)) of a tag matching /^h[1-6]$/, 0 for another tag.
HeadingLevel(tag) ==
  CASE tag = "h1" -> 1 [] tag = "h2" -> 2 [] tag = "h3" -> 3
    [] tag = "h4" -> 4 [] tag = "h5" -> 5 [] tag = "h6" -> 6
    [] OTHER -> 0

NoiseHeadingTexts ==
  { S("edit"), S("[edit]"), S("content"), S("contents"), S("table of contents"),
    S("navigation"), S("menu"), S("search"), S("language"), S("languages") }

\* Length of the run of whitespace of s that starts at position i.
RECURSIVE SpaceRun(_, _)
SpaceRun(s, i) == IF i <= Len(s) /\ s[i] \in WS THEN 1 + SpaceRun(s, i + 1) ELSE 0

isNoiseHeading(str) ==
  LET low == toLowerCase(trim(str))
      digits == DigitRun(low, 1)
      rest == SubSeq(low, digits + SpaceRun(low, digits + 1) + 1, Len(low))
  IN  \/ low \in NoiseHeadingTexts
      \/ digits > 0 /\ rest \in {S("language"), S("languages")}

HeadingWrapperPattern ==
  <<S("mw-heading"), S("heading-wrapper"), S("section-heading"), S("title-wrapper")>>

\* The loop without the seenTexts test.
RECURSIVE AppendFragmentsNoDedup(_, _)
AppendFragmentsNoDedup(content, frags) ==
  IF frags = <<>> THEN content
  ELSE LET normalizedText == trim(Head(frags))
       IN  IF normalizedText # <<>>
             THEN AppendFragmentsNoDedup(Append(content, normalizedText), Tail(frags))
             ELSE AppendFragmentsNoDedup(content, Tail(frags))

\* The for loop over extractedContent: each fragment is trimmed and appended
\* unless it is empty or already in content (seenTexts holds what content holds).
RECURSIVE AppendFragments(_, _)
AppendFragments(content, frags) ==
  IF frags = <<>> THEN content
  ELSE LET normalizedText == trim(Head(frags))
           seen == \E k \in 1..Len(content) : content[k] = normalizedText
       IN  IF normalizedText # <<>> /\ ~seen
             THEN AppendFragments(Append(content, normalizedText), Tail(frags))
             ELSE AppendFragments(content, Tail(frags))

\* The while loop of collectContentAfterHeading from sibling cur on.
RECURSIVE WalkSiblings(_, _, _, _)
WalkSiblings(t, cur, level, content) ==
  IF cur = 0 THEN content
  ELSE LET currentTag == t[cur].tag
           currentClass == AttrOr(t[cur], "class")
           isWrapper == includes(currentClass, S("mw-heading"))
           nested == {j \in Descendants(t, cur) : HeadingLevel(t[j].tag) # 0}
           nestedLevel == HeadingLevel(t[CHOOSE j \in nested : \A k \in nested : j <= k].tag)
       IN  IF HeadingLevel(currentTag) # 0 /\ HeadingLevel(currentTag) <= level
             THEN content
           ELSE IF isWrapper /\ nested # {} /\ nestedLevel <= level
             THEN content
           ELSE IF isWrapper
             THEN WalkSiblings(t, NextSibling(t, cur), level, content)
           ELSE WalkSiblings(t, NextSibling(t, cur), level,
                             AppendFragments(content, extractElementContent(t, cur)))

\* The walk started at the heading itself instead of its next sibling.
collectContentFromHeadingItself(t, heading, level) ==
  WalkSiblings(t, heading, level, <<>>)

collectContentAfterHeading(t, heading, level) ==
  LET parent == Parent(t, heading)
      parentClass == IF parent = 0 THEN <<>> ELSE AttrOr(t[parent], "class")
      traverseFrom == IF parent # 0 /\ IncludesAny(parentClass, HeadingWrapperPattern)
                        THEN parent ELSE heading
  IN  WalkSiblings(t, NextSibling(t, traverseFrom), level, <<>>)

\* The each loop without the test on the cleaned text.
RECURSIVE HeadingElementsUnfiltered(_, _)
HeadingElementsUnfiltered(t, order) ==
  IF order = <<>> THEN <<>>
  ELSE <<[element |-> Head(order), level |-> HeadingLevel(t[Head(order)].tag),
          text |-> cleanText(Text(t, Head(order)))]>>
         \o HeadingElementsUnfiltered(t, Tail(order))

\* The headings collected by the find('h1, h2, h3, h4').each loop.
RECURSIVE HeadingElements(_, _)
HeadingElements(t, order) ==
  IF order = <<>> THEN <<>>
  ELSE LET element == Head(order)
           str == cleanText(Text(t, element))
       IN  (IF str # <<>> /\ ~isNoiseHeading(str)
              THEN <<[element |-> element, level |-> HeadingLevel(t[element].tag),
                      text |-> str]>>
              ELSE <<>>)
             \o HeadingElements(t, Tail(order))

extractHeadingsWithContent(t, c) ==
  LET found == IF c = 0 THEN {}
               ELSE {j \in Descendants(t, c) : t[j].tag \in {"h1", "h2", "h3", "h4"}}
      headingElements == HeadingElements(t, InOrder(found))
  IN  [k \in 1..Len(headingElements) |->
         [level |-> headingElements[k].level,
          text |-> headingElements[k].text,
          content |-> collectContentAfterHeading(t, headingElements[k].element,
                                                 headingElements[k].level)]]

----------------------------------------------------------------------------
(* Fallback content extraction *)

ArticleMinText == 50
ArticleMaxText == 500
MaxArticles == 10
ParagraphMinText == 30
MaxParagraphs == 20
BlockMinText == 20
BlockMaxText == 500
MaxTextBlocks == 30

articleSelectors ==
  <<Tag("article"), Cls("article"), Cls("post"), Cls("entry"), Cls("story"), Cls("item")>>

NavigationTexts ==
  { S("home"), S("about"), S("contact"), S("login"), S("sign up"), S("sign in"),
    S("register"), S("search"),
    S("prev"), S("next"), S("previous"), S("back"), S("forward"),
    S("more"), S("less"), S("show"), S("hide") }

\* The patterns without the anchor at the end: a text that starts with a
\* navigation word or a digit is navigation text.
isNavigationTextUnanchored(str) ==
  LET trimmed == trim(str)
  IN  \/ \E w \in NavigationTexts : HasAt(toLowerCase(trimmed), 1, w, FALSE)
      \/ DigitRun(trimmed, 1) > 0

isNavigationText(str) ==
  LET trimmed == trim(str)
  IN  \/ toLowerCase(trimmed) \in NavigationTexts
      \/ trimmed # <<>> /\ DigitRun(trimmed, 1) = Len(trimmed)

\* The sequence taken whole, without the slice.
SliceAll(seq, n) == seq

\* slice(0, n)
Slice(seq, n) == SubSeq(seq, 1, IF Len(seq) < n THEN Len(seq) ELSE n)

\* [...new Set(seq)]: the first occurrence of every member, in order.
RECURSIVE Unique(_, _)
Unique(seq, k) ==
  IF k > Len(seq) THEN <<>>
  ELSE (IF \E j \in 1..(k - 1) : seq[j] = seq[k] THEN <<>> ELSE <<seq[k]>>)
         \o Unique(seq, k + 1)

\* The texts pushed for the matches of one article selector.
RECURSIVE ArticleTexts(_, _)
ArticleTexts(t, order) ==
  IF order = <<>> THEN <<>>
  ELSE LET str == cleanText(Text(t, Head(order)))
       IN  (IF Len(str) > ArticleMinText
              THEN <<Slice(str, ArticleMaxText)
                       \o (IF Len(str) > ArticleMaxText THEN S("...") ELSE <<>>)>>
              ELSE <<>>)
             \o ArticleTexts(t, Tail(order))

\* Strategy 1 with the matches of all the article selectors collected at once.
ArticleStrategyAllSelectors(t, c, k) ==
  LET articles == {j \in Descendants(t, c) :
                     \E n \in k..Len(articleSelectors) : Matches(t, j, articleSelectors[n])}
      texts == ArticleTexts(t, InOrder(articles))
  IN  IF texts # <<>>
        THEN Some([source |-> "article-containers",
                   text |-> Join(Slice(texts, MaxArticles), S("\n\n"))])
        ELSE None

\* Strategy 1 from article selector k on: None when no selector gives text.
RECURSIVE ArticleStrategy(_, _, _)
ArticleStrategy(t, c, k) ==
  IF k > Len(articleSelectors) THEN None
  ELSE LET articles == {j \in Descendants(t, c) : Matches(t, j, articleSelectors[k])}
           texts == ArticleTexts(t, InOrder(articles))
       IN  IF texts # <<>>
             THEN Some([source |-> "article-containers",
                        text |-> Join(Slice(texts, MaxArticles), S("\n\n"))])
             ELSE ArticleStrategy(t, c, k + 1)

RECURSIVE LongTexts(_, _)
LongTexts(t, order) ==
  IF order = <<>> THEN <<>>
  ELSE LET str == cleanText(Text(t, Head(order)))
       IN  (IF Len(str) > ParagraphMinText THEN <<str>> ELSE <<>>)
             \o LongTexts(t, Tail(order))

RECURSIVE TextBlocks(_, _)
TextBlocks(t, order) ==
  IF order = <<>> THEN <<>>
  ELSE LET str == cleanText(Text(t, Head(order)))
       IN  (IF Len(str) > BlockMinText /\ Len(str) < BlockMaxText /\ ~isNavigationText(str)
              THEN <<str>> ELSE <<>>)
             \o TextBlocks(t, Tail(order))

\* The strategies tried with the paragraphs before the article containers.
extractFallbackContentParagraphsFirst(t, c) ==
  LET below == IF c = 0 THEN {} ELSE Descendants(t, c)
      byArticles == IF c = 0 THEN None ELSE ArticleStrategy(t, c, 1)
      paragraphs == LongTexts(t, InOrder({j \in below : t[j].tag = "p"}))
      textBlocks == TextBlocks(t, InOrder({j \in below : t[j].tag \in {"td", "span", "a"}}))
  IN  IF paragraphs # <<>>
        THEN Some([source |-> "paragraphs",
                   text |-> Join(Slice(paragraphs, MaxParagraphs), S("\n\n"))])
      ELSE IF byArticles # None THEN byArticles
      ELSE IF textBlocks # <<>>
        THEN Some([source |-> "text-blocks",
                   text |-> Join(Slice(Unique(textBlocks, 1), MaxTextBlocks), <<"\n">>)])
      ELSE None

\* The text blocks returned without the test that there are any.
extractFallbackContentEmptyBlocks(t, c) ==
  LET below == IF c = 0 THEN {} ELSE Descendants(t, c)
      byArticles == IF c = 0 THEN None ELSE ArticleStrategy(t, c, 1)
      paragraphs == LongTexts(t, InOrder({j \in below : t[j].tag = "p"}))
      textBlocks == TextBlocks(t, InOrder({j \in below : t[j].tag \in {"td", "span", "a"}}))
  IN  IF byArticles # None THEN byArticles
      ELSE IF paragraphs # <<>>
        THEN Some([source |-> "paragraphs",
                   text |-> Join(Slice(paragraphs, MaxParagraphs), S("\n\n"))])
      ELSE Some([source |-> "text-blocks",
                 text |-> Join(Slice(Unique(textBlocks, 1), MaxTextBlocks), <<"\n">>)])

extractFallbackContent(t, c) ==
  LET below == IF c = 0 THEN {} ELSE Descendants(t, c)
      byArticles == IF c = 0 THEN None ELSE ArticleStrategy(t, c, 1)
      paragraphs == LongTexts(t, InOrder({j \in below : t[j].tag = "p"}))
      textBlocks == TextBlocks(t, InOrder({j \in below : t[j].tag \in {"td", "span", "a"}}))
  IN  IF byArticles # None THEN byArticles
      ELSE IF paragraphs # <<>>
        THEN Some([source |-> "paragraphs",
                   text |-> Join(Slice(paragraphs, MaxParagraphs), S("\n\n"))])
      ELSE IF textBlocks # <<>>
        THEN Some([source |-> "text-blocks",
                   text |-> Join(Slice(Unique(textBlocks, 1), MaxTextBlocks), <<"\n">>)])
      ELSE None

----------------------------------------------------------------------------
(* Meta extraction *)

\* $(selector).text() of the elements sel: the texts of all of them, joined.
RECURSIVE TextOfAll(_, _)
TextOfAll(t, order) ==
  IF order = <<>> THEN <<>> ELSE Text(t, Head(order)) \o TextOfAll(t, Tail(order))

\* $('meta[a="v"]').attr('content')?.trim(): the first match decides; <<>>
\* stands for undefined as well, both being falsy.
MetaContent(t, a, v) ==
  LET sel == {i \in 1..Len(t) : t[i].tag = "meta" /\ t[i][a] = Some(S(v))}
      first == CHOOSE i \in sel : \A j \in sel : i <= j
  IN  IF sel = {} THEN <<>> ELSE trim(AttrOr(t[first], "content"))

\* a || b || ... || null over strings: the first non-empty one.
RECURSIVE FirstTruthy(_)
FirstTruthy(strs) ==
  IF strs = <<>> THEN None
  ELSE IF Head(strs) # <<>> THEN Some(Head(strs))
  ELSE FirstTruthy(Tail(strs))

extractMetaTitle(t) ==
  LET h1s == Select(t, Tag("h1"))
      firstH1 == CHOOSE i \in h1s : \A j \in h1s : i <= j
  IN  FirstTruthy(<< trim(TextOfAll(t, InOrder(Select(t, Tag("title"))))),
                     MetaContent(t, "property", "og:title"),
                     MetaContent(t, "name", "twitter:title"),
                     IF h1s = {} THEN <<>> ELSE trim(Text(t, firstH1)) >>)

extractMetaDescription(t) ==
  FirstTruthy(<< MetaContent(t, "name", "description"),
                 MetaContent(t, "property", "og:description"),
                 MetaContent(t, "name", "twitter:description") >>)

----------------------------------------------------------------------------
(* extractSEOContent, step by step *)

harness == <<text, cleaned>>

route == <<request, response>>

ui == <<home, calls, submits>>

\* useState('') / useState(false) / useState(null) / useState(null)
HomeIdle ==
  /\ home = [url |-> <<>>, loading |-> FALSE, error |-> None, results |-> None]
  /\ calls = <<>>
  /\ submits = 0

\* response.statusText for the statuses the fetched responses have.
StatusText(code) ==
  CASE code = 404 -> S("Not Found")
    [] code = 500 -> S("Internal Server Error")
    [] code = 301 -> S("Moved Permanently")
    [] OTHER -> <<>>

\* The response parsed whatever its status.
FetchIgnoringStatus ==
  /\ pc = "fetch"
  /\ doc' = html
  /\ pc' = "meta"
  /\ UNCHANGED <<html, status, metaTitle, metaDescription, container, headings,
                 fallbackContent, result, removed, harness, route,
                 unsupported, ui>>

\* await fetch(url); if (!response.ok) throw ...; cheerio.load(html)
Fetch ==
  /\ pc = "fetch"
  /\ IF status >= 200 /\ status <= 299
       THEN /\ doc' = html
            /\ pc' = "meta"
            /\ result' = result
       ELSE /\ doc' = doc
            /\ pc' = "failed"
            /\ result' = Some([error |->
                 IF status = 0 THEN S("fetch failed")
                 ELSE S("Failed to fetch URL: ") \o Decimal(status) \o S(" ")
                        \o StatusText(status)])
  /\ UNCHANGED <<html, status, metaTitle, metaDescription, container, headings,
                 fallbackContent, removed, harness, route,
                 unsupported, ui>>

\* Step 1 reading the tree as the noise filter leaves it.
ExtractMetaAfterNoise ==
  /\ pc = "meta"
  /\ metaTitle' = extractMetaTitle(removeNoiseElements(doc))
  /\ metaDescription' = extractMetaDescription(removeNoiseElements(doc))
  /\ pc' = "noise"
  /\ UNCHANGED <<html, status, doc, container, headings, fallbackContent, result,
                 removed, harness, route,
                 unsupported, ui>>

\* Step 1: extract meta information
ExtractMeta ==
  /\ pc = "meta"
  /\ metaTitle' = extractMetaTitle(doc)
  /\ metaDescription' = extractMetaDescription(doc)
  /\ pc' = "noise"
  /\ UNCHANGED <<html, status, doc, container, headings, fallbackContent, result,
                 removed, harness, route,
                 unsupported, ui>>

\* Step 2: remove noise elements
RemoveNoise ==
  /\ pc = "noise"
  /\ doc' = removeNoiseElements(doc)
  /\ removed' = Append(removed, Len(doc) - Len(doc'))
  /\ pc' = "container"
  /\ UNCHANGED <<html, status, metaTitle, metaDescription, container, headings,
                 fallbackContent, result, harness, route,
                 unsupported, ui>>

\* Step 3: find the main content container
FindContainer ==
  /\ pc = "container"
  /\ container' = findContentContainer(doc)
  /\ pc' = "headings"
  /\ UNCHANGED <<html, status, doc, metaTitle, metaDescription, headings,
                 fallbackContent, result, removed, harness, route,
                 unsupported, ui>>

\* Step 5 run whether or not headings were found.
ExtractHeadingsThenFallback ==
  /\ pc = "headings"
  /\ headings' = extractHeadingsWithContent(doc, container)
  /\ pc' = "fallback"
  /\ UNCHANGED <<html, status, doc, metaTitle, metaDescription, container,
                 fallbackContent, result, removed, harness, route,
                 unsupported, ui>>

\* Step 4 with the nested lists removed from the elements themselves instead
\* of from their clones.
ExtractHeadingsInPlace ==
  /\ pc = "headings"
  /\ headings' = extractHeadingsWithContent(doc, container)
  /\ pc' = IF headings' = <<>> THEN "fallback" ELSE "return"
  /\ doc' = Remove(doc, {j \in 1..Len(doc) :
                           /\ doc[j].tag \in ListTags
                           /\ \E a \in Ancestors(doc, j) :
                                doc[a].tag \in TextContainerTags \cup {"li"}})
  /\ UNCHANGED <<html, status, metaTitle, metaDescription, container,
                 fallbackContent, result, removed, harness, route,
                 unsupported, ui>>

\* Step 4: extract headings with content
ExtractHeadings ==
  /\ pc = "headings"
  /\ headings' = extractHeadingsWithContent(doc, container)
  /\ pc' = IF headings' = <<>> THEN "fallback" ELSE "return"
  /\ UNCHANGED <<html, status, doc, metaTitle, metaDescription, container,
                 fallbackContent, result, removed, harness, route,
                 unsupported, ui>>

\* Step 5: if no headings found, use fallback extraction
Fallback ==
  /\ pc = "fallback"
  /\ fallbackContent' = extractFallbackContent(doc, container)
  /\ pc' = "return"
  /\ UNCHANGED <<html, status, doc, metaTitle, metaDescription, container, headings,
                 result, removed, harness, route,
                 unsupported, ui>>

\* return { url, metaTitle, metaDescription, headings, fallbackContent, extractedAt }
Return ==
  /\ pc = "return"
  /\ result' = Some([metaTitle |-> metaTitle, metaDescription |-> metaDescription,
                     headings |-> headings, fallbackContent |-> fallbackContent])
  /\ pc' = "done"
  /\ UNCHANGED <<html, status, doc, metaTitle, metaDescription, container, headings,
                 fallbackContent, removed, harness, route,
                 unsupported, ui>>

Next ==
  \/ Fetch
  \/ ExtractMeta
  \/ RemoveNoise
  \/ FindContainer
  \/ ExtractHeadings
  \/ Fallback
  \/ Return

\* The state before the call, for the page html answered with status code.
Start(page, code) ==
  /\ pc = "fetch"
  /\ request = None
  /\ response = None
  /\ html = page
  /\ status = code
  /\ doc = <<>>
  /\ metaTitle = None
  /\ metaDescription = None
  /\ container = 0
  /\ headings = <<>>
  /\ fallbackContent = None
  /\ result = None
  /\ removed = <<>>
  /\ unsupported = {}
  /\ HomeIdle
  /\ text = <<>>
  /\ cleaned = <<>>

----------------------------------------------------------------------------
(* Building documents *)

\* The nodes of block moved k levels down.
At(block, k) == [i \in 1..Len(block) |-> [block[i] EXCEPT !.d = @ + k]]

\* An element with the blocks kids as its children.
E(node, kids) == <<node>> \o At(kids, 1)

\* A text node.
T(str) == <<Txt(str)>>

\* An element with one text child.
ET(tag, str) == E(El(tag), T(str))

WithClass(n, c) == [n EXCEPT !.class = Some(S(c))]
WithId(n, c) == [n EXCEPT !.id = Some(S(c))]
WithAttr(n, a, c) == [n EXCEPT ![a] = Some(S(c))]

\* The tree of <html><head>headKids</head><body>bodyKids</body></html>.
Page(headKids, bodyKids) ==
  E(El("html"), E(El("head"), headKids) \o E(El("body"), bodyKids))

----------------------------------------------------------------------------
(* Whole pages: the pages extractSEOContent is run on under Spec *)

\* All sequences of at most n members of set.
SeqsUpTo(set, n) == UNION { [1..k -> set] : k \in 0..n }

MaxBlocks == 2

PageHeads == { <<>>, ET("title", "Example Domain") }

PageBlocks ==
  { ET("h1", "Example Domain"),
    ET("p", "This domain is for use in illustrative examples..."),
    ET("p", "Short text"),
    ET("p", " [1] "),
    ET("h2", " [edit] "),
    ET("h3", "Contents"),
    ET("h4", "Details [1]"),
    ET("h5", "Minor"),
    E(El("nav"), ET("h2", "Site links")),
    E(WithClass(El("div"), "story"),
      T("A story that is told in more than fifty characters of text.")),
    ET("span", "A span of twenty-seven chars") }

Pages ==
  { Page(h, Join(bs, <<>>)) : h \in PageHeads, bs \in SeqsUpTo(PageBlocks, MaxBlocks) }

\* The statuses of the responses that are not ok.
FailureStatuses == {404, 500}

Init ==
  \/ \E page \in Pages : Start(page, 200)
  \/ \E code \in FailureStatuses : Start(<<>>, code)

Spec == Init /\ [][Next]_vars

----------------------------------------------------------------------------
(* Pages with one section: a heading followed by sibling elements *)

MaxSiblings == 3

SectionHeadings ==
  { ET("h2", "Title"),
    E(WithClass(El("div"), "mw-heading mw-heading2"), ET("h2", "Title")),
    ET("h2", "Contents") }

SectionSiblings ==
  { T("\n") \o ET("p", "Alpha beta."),
    ET("p", "  Alpha\n beta.[1] "),
    ET("p", " \n "),
    E(El("dl"), ET("dt", "Term") \o ET("dd", "Alpha beta.")),
    E(El("ul"), E(El("li"), T(" ") \o E(El("ol"), ET("li", "Alpha")))),
    E(El("ol"), ET("li", "Alpha")),
    E(El("div"), ET("p", "Gamma") \o T("\n") \o ET("p", "Alpha beta.")),
    ET("h2", "Next") }

SectionPages ==
  { Page(<<>>, h \o Join(sibs, <<>>)) :
      h \in SectionHeadings, sibs \in SeqsUpTo(SectionSiblings, MaxSiblings) }

InitSections == \E page \in SectionPages : Start(page, 200)

SpecSections == InitSections /\ [][Next]_vars

----------------------------------------------------------------------------
(* Pages with noise: the noise filter run twice *)

MaxNoiseBlocks == 2

NoiseBlocks ==
  { E(El("nav"), ET("a", "Home")),
    E(WithClass(El("div"), "Main-Nav"), ET("p", "links")),
    E(WithClass(El("div"), "sidebar-content"), ET("p", "kept")),
    E(WithAttr(El("div"), "hidden", ""), ET("p", "hidden")),
    E(WithAttr(El("div"), "style", "color:red; display: none"), T("styled")),
    E(WithClass(El("p"), "hatnote"), T("note")),
    ET("p", "Text"),
    E(WithClass(El("section"), "menu"), E(WithClass(El("div"), "menu"), T("m"))),
    E(WithAttr(El("span"), "aria-hidden", "true"), E(WithId(El("div"), "toc"), T("x"))),
    E(WithAttr(El("a"), "href", "/w/index.php?action=edit"), T("edit")) }

NoiseWrappers ==
  { El("div"), WithClass(El("div"), "mw-parser-output"), WithClass(El("div"), "post Cookie") }

NoisePages ==
  LET bodies == { Join(bs, <<>>) : bs \in SeqsUpTo(NoiseBlocks, MaxNoiseBlocks) }
  IN  { Page(<<>>, b) : b \in bodies }
        \cup { Page(<<>>, E(w, b)) : w \in NoiseWrappers, b \in bodies }

\* removeNoiseElements called once more on the filtered tree.
RemoveNoiseAgain ==
  /\ pc = "container"
  /\ Len(removed) = 1
  /\ doc' = removeNoiseElements(doc)
  /\ removed' = Append(removed, Len(doc) - Len(doc'))
  /\ UNCHANGED <<pc, html, status, metaTitle, metaDescription, container, headings,
                 fallbackContent, result, harness, route,
                 unsupported, ui>>

InitNoise == \E page \in NoisePages : Start(page, 200)

NextNoise == Fetch \/ ExtractMeta \/ RemoveNoise \/ RemoveNoiseAgain

SpecNoise == InitNoise /\ [][NextNoise]_vars

----------------------------------------------------------------------------
(* Pages with candidate containers *)

MaxContainerBlocks == 2

\* n letters.
A(n) == [i \in 1..n |-> "a"]

\* A text node with the characters chars.
TS(chars) == <<[El("#text") EXCEPT !.txt = chars]>>

\* A text node of n letters.
Letters(n) == TS(A(n))

ContainerBlocks ==
  { E(El("main"), Letters(60)),
    E(El("div"), E(El("main"), Letters(60)) \o E(El("main"), TS(S("\n") \o A(101)))),
    E(El("main"), Letters(30) \o E(El("article"), Letters(120))),
    E(El("article"), Letters(150)),
    E(El("article"), TS(S("  ") \o A(50) \o S(" \n ") \o A(49) \o S("\n"))),
    E(WithId(El("div"), "content"), E(El("p"), Letters(220))),
    E(WithClass(El("div"), "wide post"), E(El("p"), Letters(120))),
    E(El("nav"), ET("a", "Home") \o ET("a", "About us")),
    E(El("section"), E(El("p"), Letters(210))),
    E(El("div"), E(El("a"), Letters(210))),
    E(El("div"), E(El("p"), Letters(230))),
    E(WithClass(El("div"), "popular"), E(El("p"), Letters(260))),
    E(El("div"), E(El("a"), Letters(100)) \o E(El("p"), Letters(100))) }

ContainerPages ==
  { Page(<<>>, Join(bs, <<>>)) : bs \in SeqsUpTo(ContainerBlocks, MaxContainerBlocks) }

InitContainer == \E page \in ContainerPages : Start(page, 200)

SpecContainer == InitContainer /\ [][Next]_vars

----------------------------------------------------------------------------
(* Text-cleaner harness: cleanText applied to bounded inputs *)

MaxPieces == 3

Pieces ==
  { S("a"), S(" "), S("\n\t"), S("["), S("]"), S("1"), S("[1]"),
    S(" [12] "), S("[Edit]"), S("[citation  needed]"), S("[note 3]"), S("[note\n") }

CleanInputs ==
  { Join(ps, <<>>) : ps \in UNION { [1..n -> Pieces] : n \in 0..MaxPieces } }

\* One more call of cleanText, on the result of the previous one.
CleanStep ==
  /\ pc = "clean"
  /\ Len(cleaned) < 2
  /\ cleaned' = Append(cleaned, cleanText(IF cleaned = <<>> THEN text
                                          ELSE cleaned[Len(cleaned)]))
  /\ UNCHANGED <<pc, html, status, doc, metaTitle, metaDescription, container,
                 headings, fallbackContent, result, removed, text, route,
                 unsupported, ui>>

InitClean ==
  /\ text \in CleanInputs
  /\ pc = "clean"
  /\ request = None
  /\ response = None
  /\ html = <<>>
  /\ status = 200
  /\ doc = <<>>
  /\ metaTitle = None
  /\ metaDescription = None
  /\ container = 0
  /\ headings = <<>>
  /\ fallbackContent = None
  /\ result = None
  /\ removed = <<>>
  /\ unsupported = {}
  /\ HomeIdle
  /\ cleaned = <<>>

NextClean == CleanStep

SpecClean == InitClean /\ [][NextClean]_vars

----------------------------------------------------------------------------
(* Claims about the text cleaner, under SpecClean *)

\* C3: cleaning a cleaned string gives the cleaned string again:
\* cleanText(cleanText(s)) = cleanText(s) for every input s.
CleanTextIdempotent ==
  Len(cleaned) = 2 => cleaned[2] = cleaned[1]

\* C4: cleanText never lengthens its input: the result of every call is at
\* most as long as the string the call was given.
CleanTextNeverLengthens ==
  /\ Len(cleaned) >= 1 => Len(cleaned[1]) <= Len(text)
  /\ Len(cleaned) = 2 => Len(cleaned[2]) <= Len(cleaned[1])

\* A call that removed a marker and whitespace and left text behind.
CleanTextShortened ==
  /\ Len(cleaned) >= 1
  /\ cleaned[1] # <<>>
  /\ Len(cleaned[1]) < Len(text)
  /\ \E i \in 1..Len(text) : text[i] = "["
  /\ \A i \in 1..Len(cleaned[1]) : cleaned[1][i] # "["

----------------------------------------------------------------------------
(* Claims about the content of a section, under SpecSections *)

HeadingsExtracted == pc \in {"fallback", "return", "done"}

\* The heading elements of the container that are collected, in document order.
CollectedHeadings ==
  IF container = 0 THEN <<>>
  ELSE InOrder({j \in Descendants(doc, container) :
                  /\ doc[j].tag \in {"h1", "h2", "h3", "h4"}
                  /\ cleanText(Text(doc, j)) # <<>>
                  /\ ~isNoiseHeading(cleanText(Text(doc, j)))})

\* The element whose following siblings are walked for heading h.
WalkStart(h) ==
  LET parent == Parent(doc, h)
  IN  IF parent # 0 /\ IncludesAny(AttrOr(doc[parent], "class"), HeadingWrapperPattern)
        THEN parent ELSE h

\* Sibling j ends the section of a heading of level lvl.
EndsSection(j, lvl) ==
  LET nested == {k \in Descendants(doc, j) : HeadingLevel(doc[k].tag) # 0}
  IN  \/ HeadingLevel(doc[j].tag) \in 1..lvl
      \/ /\ includes(AttrOr(doc[j], "class"), S("mw-heading"))
         /\ \E k \in nested : /\ \A m \in nested : k <= m
                               /\ HeadingLevel(doc[k].tag) <= lvl

\* The siblings visited for heading h: the element siblings after the start,
\* before the first one that ends the section, the heading wrappers left out.
VisitedSiblings(h) ==
  LET from == WalkStart(h)
      lvl == HeadingLevel(doc[h].tag)
      sibs == {j \in (from + 1)..Len(doc) :
                 IsElement(doc, j) /\ Parent(doc, j) = Parent(doc, from)}
  IN  InOrder({j \in sibs :
                 /\ \A k \in sibs : k <= j => ~EndsSection(k, lvl)
                 /\ ~includes(AttrOr(doc[j], "class"), S("mw-heading"))})

RECURSIVE FragmentsOf(_)
FragmentsOf(order) ==
  IF order = <<>> THEN <<>>
  ELSE extractElementContent(doc, Head(order)) \o FragmentsOf(Tail(order))

\* The fragments produced for the k-th collected heading, in visit order.
SectionFragments(k) == FragmentsOf(VisitedSiblings(CollectedHeadings[k]))

IsBlank(str) == \A i \in 1..Len(str) : str[i] \in WS

\* str without its leading and trailing whitespace.
Stripped(str) ==
  LET first == CHOOSE i \in 1..Len(str) : str[i] \notin WS /\ \A j \in 1..(i - 1) : str[j] \in WS
      last == CHOOSE i \in 1..Len(str) : str[i] \notin WS /\ \A j \in (i + 1)..Len(str) : str[j] \in WS
  IN  IF IsBlank(str) THEN <<>> ELSE SubSeq(str, first, last)

\* The fragments stripped, without the blank ones.
StrippedFragments(k) ==
  LET frags == SectionFragments(k)
      stripped == [i \in 1..Len(frags) |-> Stripped(frags[i])]
      NotEmpty(str) == str # <<>>
  IN  SelectSeq(stripped, NotEmpty)

\* C6 as stated: the content of every heading is the sequence of the
\* fragments produced in visit order, the later exact duplicates dropped.
ContentIsDedupedFragments ==
  HeadingsExtracted =>
    /\ Len(headings) = Len(CollectedHeadings)
    /\ \A k \in 1..Len(headings) :
         headings[k].content = Unique(SectionFragments(k), 1)

\* C6 as amended: the content of every heading is the sequence of the
\* fragments in visit order, each stripped of leading and trailing whitespace,
\* with every later duplicate of a stripped fragment dropped; so content
\* holds no two equal strings.
ContentIsDedupedStrippedFragments ==
  HeadingsExtracted =>
    /\ Len(headings) = Len(CollectedHeadings)
    /\ \A k \in 1..Len(headings) :
         /\ headings[k].content = Unique(StrippedFragments(k), 1)
         /\ \A i, j \in 1..Len(headings[k].content) :
              headings[k].content[i] = headings[k].content[j] => i = j

\* A heading for which a later duplicate was dropped and order mattered.
DuplicateFragmentDropped ==
  /\ HeadingsExtracted
  /\ \E k \in 1..Len(headings) :
       /\ k <= Len(CollectedHeadings)
       /\ Len(headings[k].content) >= 2
       /\ Len(StrippedFragments(k)) > Len(headings[k].content)

\* C7: no string of any heading's content is empty or only whitespace.
NoBlankContent ==
  HeadingsExtracted =>
    \A k \in 1..Len(headings) :
      \A i \in 1..Len(headings[k].content) : ~IsBlank(headings[k].content[i])

\* A heading with content among whose visited siblings one has only
\* whitespace for text.
BlankSiblingSkipped ==
  /\ HeadingsExtracted
  /\ \E k \in 1..Len(headings) :
       /\ k <= Len(CollectedHeadings)
       /\ headings[k].content # <<>>
       /\ \E j \in 1..Len(VisitedSiblings(CollectedHeadings[k])) :
            LET e == VisitedSiblings(CollectedHeadings[k])[j]
            IN  doc[e].tag = "p" /\ Text(doc, e) # <<>> /\ IsBlank(Text(doc, e))

----------------------------------------------------------------------------
(* Claims about the noise filter, under SpecNoise *)

\* Element i of t is one the noise filter removes: it matches a static noise
\* selector, the class-substring rule or a hidden-element rule.
IsNoise(t, i) ==
  \/ \E k \in 1..Len(NOISE_SELECTORS) : Matches(t, i, NOISE_SELECTORS[k])
  \/ IsElement(t, i) /\ t[i].class # None /\ IsNoiseClass(t[i])
  \/ Matches(t, i, AttrHas("hidden"))
  \/ Matches(t, i, AttrSub("style", "display: none"))
  \/ Matches(t, i, AttrSub("style", "display:none"))
  \/ Matches(t, i, AttrEq("aria-hidden", "true"))

\* C5: the noise filter is idempotent: a second pass removes no node, and
\* after the first pass no element of the tree matches a static noise
\* selector, the class-substring rule or a hidden-element rule.
NoiseFilterIdempotent ==
  /\ Len(removed) = 2 => removed[2] = 0
  /\ Len(removed) >= 1 => \A i \in 1..Len(doc) : ~IsNoise(doc, i)

\* Two passes were run on a page where the first pass removed several
\* subtrees and kept others.
SecondPassAfterRemovals ==
  /\ Len(removed) = 2
  /\ removed[1] >= 4
  /\ \E i, j \in 1..Len(html) :
       /\ i # j /\ IsNoise(html, i) /\ IsNoise(html, j)
       /\ j \notin Descendants(html, i) /\ i \notin Descendants(html, j)
  /\ Len(doc) > 3

----------------------------------------------------------------------------
(* Claims about container selection, under SpecContainer *)

ContainerChosen == pc \in {"headings", "fallback", "return", "done"}

\* Semantic selector k has a match whose text is longer than the threshold.
ClearsThreshold(k) ==
  \E i \in Select(doc, CONTENT_CONTAINER_SELECTORS[k]) :
    getTextLength(doc, i) > SemanticMinText

\* C8: the first semantic selector, in priority order, that has a match with
\* more than 100 characters of text decides: the container is a match of
\* that selector and no match of that selector has a longer text, whatever
\* the matches of the later selectors are.
FirstSemanticSelectorWins ==
  ContainerChosen =>
    \A k \in 1..Len(CONTENT_CONTAINER_SELECTORS) :
      (ClearsThreshold(k) /\ \A j \in 1..(k - 1) : ~ClearsThreshold(j)) =>
        /\ container \in Select(doc, CONTENT_CONTAINER_SELECTORS[k])
        /\ \A i \in Select(doc, CONTENT_CONTAINER_SELECTORS[k]) :
             getTextLength(doc, i) <= getTextLength(doc, container)

\* The container is a main element that is not the first main of the page,
\* and an article, matched by a later selector, has more text than it.
EarlierSelectorBeatsLongerText ==
  /\ ContainerChosen
  /\ container # 0
  /\ doc[container].tag = "main"
  /\ \E i \in Select(doc, Tag("main")) : i < container
  /\ \E i \in Select(doc, Tag("article")) :
       getTextLength(doc, i) > getTextLength(doc, container)

\* The fetched page has one article, of more than 100 characters of text and
\* not in a subtree the noise filter removes, a nav made of links, and no main.
ArticleAndNavPage ==
  LET articles == Select(html, Tag("article"))
  IN  /\ Cardinality(articles) = 1
      /\ \A i \in articles :
           /\ getTextLength(html, i) > SemanticMinText
           /\ \A j \in Ancestors(html, i) \cup {i} : ~IsNoise(html, j)
      /\ \E n \in Select(html, Tag("nav")) :
           /\ Children(html, n) # {}
           /\ \A c \in Children(html, n) : html[c].tag = "a"
      /\ Select(html, Tag("main")) = {}

ContainerJustChosen == pc = "headings"

\* No semantic selector has a match above the threshold: the container is
\* chosen by findHighestTextDensityElement.
PhaseB == \A k \in 1..Len(CONTENT_CONTAINER_SELECTORS) : ~ClearsThreshold(k)

\* The div, section, article and main elements with at least 200 characters
\* of normalized text of which at most half is link text.
Scored ==
  {i \in 1..Len(doc) :
     /\ doc[i].tag \in {"div", "section", "article", "main"}
     /\ getTextLength(doc, i) >= DensityMinText
     /\ 2 * SumLengths(doc, InOrder({j \in Descendants(doc, i) : doc[j].tag = "a"}))
          <= getTextLength(doc, i)}

\* C23: in Phase B the elements that receive a score are the div, section,
\* article and main elements with at least 200 characters of normalized text
\* and link density at most 0.5; the container is the one with the highest
\* score, the earliest in document order among equal scores, and the body when
\* no candidate has a score above 0.
HighestScoreWins ==
  (ContainerJustChosen /\ PhaseB) =>
    /\ Candidates(doc) = Scored
    /\ IF \E i \in Scored : Score(doc, i) > 0
         THEN /\ container \in Scored
              /\ \A j \in Scored :
                   \/ Score(doc, j) < Score(doc, container)
                   \/ Score(doc, j) = Score(doc, container) /\ container <= j
         ELSE container = Body(doc)

\* Phase B chose a candidate that is not the first one scored and that has
\* less text than another candidate.
LaterCandidateWins ==
  /\ ContainerChosen
  /\ PhaseB
  /\ container \in Scored
  /\ \E j \in Scored : j < container /\ Score(doc, j) < Score(doc, container)
  /\ \E j \in Scored : getTextLength(doc, j) > getTextLength(doc, container)

\* C28: when container selection falls through to Phase B, no article or
\* main element and no element that a Phase-A selector matches is among the
\* scored candidates (each has at most 100 characters of text, and Phase B
\* asks for 200), so the tag multipliers apply to no candidate and the
\* container is a div, a section or the body.
NoSemanticCandidateInPhaseB ==
  (ContainerJustChosen /\ PhaseB) =>
    /\ \A i \in Candidates(doc) :
         /\ doc[i].tag \notin {"article", "main"}
         /\ \A k \in 1..Len(CONTENT_CONTAINER_SELECTORS) :
              ~Matches(doc, i, CONTENT_CONTAINER_SELECTORS[k])
    /\ \/ container = Body(doc)
       \/ doc[container].tag \in {"div", "section"}

\* Phase B chose a section on a page that has a main or an article element
\* with text, too short for Phase A.
PhaseBPassesSemanticElements ==
  /\ ContainerChosen
  /\ PhaseB
  /\ container # 0
  /\ doc[container].tag = "section"
  /\ \E i \in 1..Len(doc) : doc[i].tag \in {"article", "main"} /\ getTextLength(doc, i) > 0

----------------------------------------------------------------------------
(* Claims about the returned record, under Spec *)

Returned == pc = "done"

\* Some fallback strategy has text to give for the container: an
\* article-like element of more than 50 characters, a paragraph of more than
\* 30, or a table cell, span or link of more than 20 and fewer than 500
\* characters that is not navigation text.
HasFallbackText ==
  /\ container # 0
  /\ \E j \in Descendants(doc, container) :
       LET str == cleanText(Text(doc, j))
       IN  \/ /\ \E k \in 1..Len(articleSelectors) : Matches(doc, j, articleSelectors[k])
              /\ Len(str) > ArticleMinText
           \/ doc[j].tag = "p" /\ Len(str) > ParagraphMinText
           \/ /\ doc[j].tag \in {"td", "span", "a"}
              /\ Len(str) > BlockMinText /\ Len(str) < BlockMaxText
              /\ ~isNavigationText(str)

\* C1 as stated: the returned record has fallbackContent if and only if its
\* headings are empty.
FallbackIffNoHeadings ==
  Returned => (result[1].fallbackContent # None <=> result[1].headings = <<>>)

\* C1 as amended: the returned record has fallbackContent only if its
\* headings are empty; when they are empty, it has fallbackContent exactly
\* when a fallback strategy has text to give.
FallbackOnlyIfNoHeadings ==
  Returned =>
    /\ result[1].fallbackContent # None => result[1].headings = <<>>
    /\ result[1].headings = <<>> => (result[1].fallbackContent # None <=> HasFallbackText)

\* A record returned with fallback content for a page whose only heading
\* element was discarded.
FallbackSetWithoutHeadings ==
  /\ Returned
  /\ result[1].headings = <<>>
  /\ result[1].fallbackContent # None
  /\ \E j \in 1..Len(doc) : doc[j].tag \in {"h1", "h2", "h3", "h4"}

\* C2: every returned heading has a level in 1..4 and a text that is not
\* empty and is the cleaned text of a heading element of that level in the
\* container; a heading element whose cleaned text is empty gives no heading.
HeadingsWellFormed ==
  HeadingsExtracted =>
    /\ \A k \in 1..Len(headings) :
         /\ headings[k].level \in {1, 2, 3, 4}
         /\ headings[k].text # <<>>
         /\ \E j \in Descendants(doc, container) :
              /\ HeadingLevel(doc[j].tag) = headings[k].level
              /\ cleanText(Text(doc, j)) = headings[k].text
    /\ Len(headings) <=
         Cardinality({j \in 1..Len(doc) :
                        /\ doc[j].tag \in {"h1", "h2", "h3", "h4"}
                        /\ cleanText(Text(doc, j)) # <<>>})

\* Headings were returned for a page that also has a heading element whose
\* cleaned text is empty and a heading element of a level above 4.
EmptyHeadingDropped ==
  /\ HeadingsExtracted
  /\ headings # <<>>
  /\ \E j \in 1..Len(doc) :
       doc[j].tag \in {"h1", "h2", "h3", "h4", "h5"} /\ Text(doc, j) # <<>>
         /\ (cleanText(Text(doc, j)) = <<>> \/ doc[j].tag = "h5")

\* The fetched page has the title "Example Domain" and a body made of one h1
\* "Example Domain" immediately followed by one sibling p.
ExamplePage ==
  \E p \in {b \in PageBlocks : b[1].tag = "p"} :
    html = Page(ET("title", "Example Domain"), ET("h1", "Example Domain") \o p)

\* The record's metaTitle is "Example Domain", it has exactly one heading, of
\* level 1 and text "Example Domain", with the given content, and it has no
\* fallbackContent.
ExampleRecord(content) ==
  /\ result[1].metaTitle = Some(S("Example Domain"))
  /\ Len(result[1].headings) = 1
  /\ result[1].headings[1].level = 1
  /\ result[1].headings[1].text = S("Example Domain")
  /\ result[1].headings[1].content = content
  /\ result[1].fallbackContent = None

\* C10 as stated: for that page the record has metaTitle "Example Domain",
\* exactly one heading, of level 1 and text "Example Domain", whose content
\* is the one-element sequence holding the paragraph's cleaned text, and no
\* fallbackContent.
ExamplePageExtracted ==
  (Returned /\ ExamplePage) =>
    \E p \in Select(html, Tag("p")) : ExampleRecord(<<cleanText(Text(html, p))>>)

\* C10 as amended: the same, for a paragraph whose cleaned text is not
\* empty; a paragraph whose cleaned text is empty leaves the heading's
\* content empty.
ExamplePageWithTextExtracted ==
  (Returned /\ ExamplePage) =>
    \E p \in Select(html, Tag("p")) :
      LET str == cleanText(Text(html, p))
      IN  ExampleRecord(IF str = <<>> THEN <<>> ELSE <<str>>)

\* The record was returned for the page of the example.
ExamplePageReturned ==
  /\ Returned
  /\ html = Page(ET("title", "Example Domain"),
                 ET("h1", "Example Domain")
                   \o ET("p", "This domain is for use in illustrative examples..."))
  /\ result[1].headings[1].content
       = <<S("This domain is for use in illustrative examples...")>>

----------------------------------------------------------------------------
(* Pages with one heading "Title" of level 2, bare or inside a wrapper,     *)
(* followed by siblings that end, continue or are skipped by the walk       *)

MaxWalk == 2

\* <ul><li>A<ul><li>B</li></ul></li></ul>
NestedList == E(El("ul"), E(El("li"), T("A") \o E(El("ul"), ET("li", "B"))))

TitleHeadings ==
  { ET("h2", "Title"),
    E(WithClass(El("div"), "mw-heading mw-heading2"), ET("h2", "Title")),
    E(WithClass(El("div"), "heading-wrapper"), ET("h2", "Title")) }

\* The heading "Title", or a heading that is discarded in its place.
WalkHeadings == TitleHeadings \cup { ET("h2", " [edit] ") }

WalkBlocks ==
  { ET("p", "Alpha beta."),
    ET("p", "Gamma"),
    NestedList,
    ET("h2", "Contents"),
    ET("h2", " [edit] "),
    ET("h3", "Sub"),
    ET("h2", "Next"),
    E(WithClass(El("div"), "mw-heading mw-heading3"), ET("h3", "Sub")),
    E(WithClass(El("div"), "mw-heading mw-heading2"), ET("h2", "Next")),
    E(WithClass(El("div"), "heading-wrapper"), ET("h2", "Other")),
    E(El("div"), T("Intro ") \o E(El("ol"), ET("li", "X")) \o T(" end")) }

WalkPages ==
  { Page(<<>>, h \o Join(sibs, <<>>)) :
      h \in WalkHeadings, sibs \in SeqsUpTo(WalkBlocks, MaxWalk) }

InitWalk == \E page \in WalkPages : Start(page, 200)

SpecWalk == InitWalk /\ [][Next]_vars

----------------------------------------------------------------------------
(* Claims about the walk after a heading, under SpecWalk *)

\* The page is the heading "Title" followed by the nested list alone, or by
\* the nested list and the next heading of the same level.
NestedListPage ==
  \E h \in TitleHeadings, rest \in {<<>>, ET("h2", "Next")} :
    html = Page(<<>>, h \o NestedList \o rest)

\* The bullet line of A, then the bullet line of B one level deeper.
NestedListFragment ==
  <<Bullet, " ", "A", "\n", " ", " ", Bullet, " ", "B">>

\* C11: a nested list <ul><li>A<ul><li>B</li></ul></li></ul> following a
\* heading gives that heading exactly one content fragment, of two lines: the
\* bullet line of A (without the text of the nested list), then the bullet
\* line of B indented one level deeper.
NestedListIsOneFragment ==
  (HeadingsExtracted /\ NestedListPage) =>
    /\ headings[1].text = S("Title")
    /\ headings[1].content = <<NestedListFragment>>

\* The headings of a page made of a heading and the nested list were extracted.
NestedListExtracted ==
  /\ HeadingsExtracted
  /\ html = Page(<<>>, ET("h2", "Title") \o NestedList)
  /\ Len(headings[1].content) = 1

----------------------------------------------------------------------------
(* Pages for the fallback extractor: a run of paragraphs, bare or wrapped,  *)
(* with or without article-like elements, text blocks and headings          *)

MaxParagraphCount == 21

\* <p>Paragraph k holds more than thirty characters.</p>
LongParagraph(k) ==
  E(El("p"), TS(S("Paragraph ") \o Decimal(k) \o S(" holds more than thirty characters.")))

\* n such paragraphs in a row.
ParagraphRun(n) == Join([k \in 1..n |-> LongParagraph(k)], <<>>)

ParagraphCounts == {0, 1, 10, MaxParagraphs, MaxParagraphCount}

\* What stands around the paragraphs: nothing, <main><article>, <nav>.
FallbackWrappers == {"none", "main article", "nav"}

Wrapped(w, kids) ==
  CASE w = "main article" -> E(El("main"), E(El("article"), kids))
    [] w = "nav" -> E(El("nav"), kids)
    [] OTHER -> kids

\* The blocks a page has after its paragraphs, each one present or not.
ExtraBlocks ==
  << E(WithClass(El("div"), "item"), T("An item")),
     E(WithClass(El("div"), "story"),
       T("A story that is told in more than fifty characters of text.")),
     ET("span", "A span of twenty-seven chars"),
     E(WithAttr(El("a"), "href", "/page/1"), T("1234567890123456789012345")),
     ET("h2", "Contents"),
     ET("h2", "Title") >>

\* The blocks of ExtraBlocks at the positions in chosen, in order.
Extras(chosen) ==
  Join([k \in 1..Len(ExtraBlocks) |-> IF k \in chosen THEN ExtraBlocks[k] ELSE <<>>], <<>>)

FallbackPages ==
  { Page(<<>>, Wrapped(w, ParagraphRun(n)) \o Extras(chosen)) :
      n \in ParagraphCounts, w \in FallbackWrappers,
      chosen \in SUBSET (1..Len(ExtraBlocks)) }

InitFallback == \E page \in FallbackPages : Start(page, 200)

SpecFallback == InitFallback /\ [][Next]_vars

----------------------------------------------------------------------------
(* Claims about the fallback extractor, under SpecFallback *)

\* The paragraphs of tree t, among the nodes in among, whose cleaned text is
\* longer than 30 characters.
LongParagraphsOf(t, among) ==
  {j \in among : t[j].tag = "p" /\ Len(cleanText(Text(t, j))) > ParagraphMinText}

\* The nodes below the chosen container.
InContainer == IF container = 0 THEN {} ELSE Descendants(doc, container)

\* Strategy 1 has output: an article-like element below the container has a
\* cleaned text of more than 50 characters.
ArticleOutput ==
  \E j \in InContainer :
    /\ \E k \in 1..Len(articleSelectors) : Matches(doc, j, articleSelectors[k])
    /\ Len(cleanText(Text(doc, j))) > ArticleMinText

\* Strategy 2 has output: a paragraph below the container has a cleaned text
\* of more than 30 characters.
ParagraphOutput == LongParagraphsOf(doc, InContainer) # {}

\* Strategy 3 has output: a td, span or a below the container has a cleaned
\* text of more than 20 and fewer than 500 characters that is not made of
\* digits alone (the navigation words are all shorter than 20 characters).
BlockOutput ==
  \E j \in InContainer :
    LET str == cleanText(Text(doc, j))
    IN  /\ doc[j].tag \in {"td", "span", "a"}
        /\ Len(str) > BlockMinText /\ Len(str) < BlockMaxText
        /\ \E k \in 1..Len(str) : str[k] \notin Digits

\* The number of entries of a text joined with blank lines.
EntryCount(str) ==
  1 + Cardinality({k \in 1..(Len(str) - 1) : str[k] = "\n" /\ str[k + 1] = "\n"})

\* The fetched document has no h1..h4 element and exactly ten paragraphs
\* whose cleaned text is longer than 30 characters.
TenParagraphsNoHeadings ==
  /\ \A j \in 1..Len(html) : html[j].tag \notin {"h1", "h2", "h3", "h4"}
  /\ Cardinality(LongParagraphsOf(html, 1..Len(html))) = 10

\* C12 as stated: a document with zero headings and ten paragraphs of more
\* than 30 characters each yields fallbackContent with source "paragraphs"
\* and at most 20 entries.
TenParagraphsGiveParagraphs ==
  (Returned /\ TenParagraphsNoHeadings) =>
    /\ result[1].fallbackContent # None
    /\ result[1].fallbackContent[1].source = "paragraphs"
    /\ EntryCount(result[1].fallbackContent[1].text) <= MaxParagraphs

\* C12 as amended: when no heading is collected, n >= 1 paragraphs of more
\* than 30 characters lie below the chosen container after noise filtering
\* (ten, for the document of the claim), and no article-like element below
\* the container has more than 50 characters, fallbackContent has source
\* "paragraphs" and holds the first min(n, 20) of them.
ParagraphsInContainerGiveParagraphs ==
  (Returned /\ result[1].headings = <<>> /\ ParagraphOutput /\ ~ArticleOutput) =>
    LET n == Cardinality(LongParagraphsOf(doc, InContainer))
    IN  /\ result[1].fallbackContent # None
        /\ result[1].fallbackContent[1].source = "paragraphs"
        /\ EntryCount(result[1].fallbackContent[1].text)
             = (IF n < MaxParagraphs THEN n ELSE MaxParagraphs)

\* A record returned with the paragraphs of a page that has more than 20 of
\* them, and none of them inside an article-like element.
MoreThanTwentyParagraphs ==
  /\ Returned
  /\ Cardinality(LongParagraphsOf(doc, InContainer)) > MaxParagraphs
  /\ result[1].fallbackContent # None
  /\ result[1].fallbackContent[1].source = "paragraphs"

\* C13: the fallback extractor runs only when no heading was collected, and
\* its source is the first of article-containers, paragraphs, text-blocks
\* that has output: a later strategy's output is never returned when an
\* earlier one has output.
FallbackInStrictOrder ==
  /\ pc = "fallback" => headings = <<>>
  /\ fallbackContent # None => headings = <<>>
  /\ (pc \in {"return", "done"} /\ headings = <<>>) =>
       /\ ArticleOutput =>
            fallbackContent # None /\ fallbackContent[1].source = "article-containers"
       /\ (~ArticleOutput /\ ParagraphOutput) =>
            fallbackContent # None /\ fallbackContent[1].source = "paragraphs"
       /\ (~ArticleOutput /\ ~ParagraphOutput /\ BlockOutput) =>
            fallbackContent # None /\ fallbackContent[1].source = "text-blocks"

\* The article containers were returned for a page whose paragraphs and text
\* blocks have output as well.
ArticlesBeforeParagraphs ==
  /\ Returned
  /\ result[1].fallbackContent # None
  /\ result[1].fallbackContent[1].source = "article-containers"
  /\ ParagraphOutput
  /\ BlockOutput

\* C14: when no heading is collected and none of the three strategies has
\* output, the call returns a record (it raises no error) whose headings are
\* empty and whose fallbackContent is absent.
NoFallbackWithoutOutput ==
  /\ status = 200 => pc # "failed"
  /\ (pc \in {"return", "done"} /\ headings = <<>>
        /\ ~ArticleOutput /\ ~ParagraphOutput /\ ~BlockOutput) =>
       /\ fallbackContent = None
       /\ pc = "done" =>
            /\ result # None
            /\ DOMAIN result[1]
                 = {"metaTitle", "metaDescription", "headings", "fallbackContent"}
            /\ result[1].headings = <<>>
            /\ result[1].fallbackContent = None

\* A record returned without headings and without fallbackContent for a page
\* that has text: a short article-like element and a link made of digits.
NothingToFallBackOn ==
  /\ Returned
  /\ result[1].headings = <<>>
  /\ result[1].fallbackContent = None
  /\ \E j \in InContainer : doc[j].tag = "a"
  /\ \E j \in InContainer : AttrOr(doc[j], "class") = S("item")

----------------------------------------------------------------------------
(* POST /api/extract: the route handler around extractSEOContent *)

\* The characters a URL scheme is made of after its first letter.
SchemeChars ==
  {Lower[k] : k \in 1..26} \cup {Upper[k] : k \in 1..26} \cup Digits \cup {"+", "-", "."}

\* The schemes whose URLs must name a host.
HostSchemes == {S("http"), S("https"), S("ws"), S("wss"), S("ftp")}

\* The position of the first member of chars in s from position i on,
\* Len(s) + 1 when there is none.
FirstOf(s, chars, i) ==
  LET at == {k \in i..Len(s) : s[k] \in chars}
  IN  IF at = {} THEN Len(s) + 1 ELSE CHOOSE k \in at : \A m \in at : k <= m

\* new URL(url) does not throw: after trimming, url starts with a scheme and
\* a colon, and for the schemes that need one a host without a space follows
\* the slashes.
ParsesAsURL(url) ==
  LET u == trim(url)
      colon == FirstOf(u, {":"}, 1)
      scheme == toLowerCase(SubSeq(u, 1, colon - 1))
      slashes == {k \in (colon + 1)..Len(u) : \A m \in (colon + 1)..k : u[m] \in {"/", "\\"}}
      hostStart == colon + 1 + Cardinality(slashes)
      hostEnd == FirstOf(u, {"/", "\\", "?", "#"}, hostStart) - 1
      host == SubSeq(u, hostStart, hostEnd)
  IN  /\ colon <= Len(u)
      /\ colon > 1
      /\ u[1] \in SchemeChars \ (Digits \cup {"+", "-", "."})
      /\ \A k \in 1..(colon - 1) : u[k] \in SchemeChars
      /\ scheme \in HostSchemes =>
           host # <<>> /\ \A k \in 1..Len(host) : host[k] # " "

\* fetch answers for the URLs of these schemes and rejects for the others.
FetchSchemes == {S("http"), S("https")}

Fetchable(url) ==
  LET u == trim(url)
  IN  toLowerCase(SubSeq(u, 1, FirstOf(u, {":"}, 1) - 1)) \in FetchSchemes

\* NextResponse.json({ error }, { status })
ErrorResponse(code, message) == Some([status |-> code, body |-> [error |-> message]])

\* POST up to the call of extractSEOContent: request.json(), the test of url
\* and new URL(url); what they throw is caught and answered with status 500.
Post ==
  /\ pc = "post"
  /\ LET req == request[1]
     IN  IF req.body = "invalid"
           THEN /\ response' = ErrorResponse(500, S("Unexpected end of JSON input"))
                /\ pc' = "responded"
         ELSE IF req.body = "null"
           THEN /\ response' = ErrorResponse(500,
                     S("Cannot destructure property 'url' of 'body' as it is null."))
                /\ pc' = "responded"
         ELSE IF req.url = None \/ req.url = Some(<<>>)
           THEN /\ response' = ErrorResponse(400, S("URL is required"))
                /\ pc' = "responded"
         ELSE IF ~ParsesAsURL(req.url[1])
           THEN /\ response' = ErrorResponse(400, S("Invalid URL format"))
                /\ pc' = "responded"
         ELSE /\ response' = response
              /\ pc' = "fetch"
  /\ UNCHANGED <<request, html, status, doc, metaTitle, metaDescription, container,
                 headings, fallbackContent, result, removed, harness, unsupported, ui>>

\* POST after extractSEOContent: the record as JSON, or the caught error's
\* message with status 500.
Respond ==
  /\ pc \in {"done", "failed"}
  /\ request # None
  /\ response' = IF pc = "done" THEN Some([status |-> 200, body |-> result[1]])
                 ELSE ErrorResponse(500, result[1].error)
  /\ pc' = "responded"
  /\ UNCHANGED <<request, html, status, doc, metaTitle, metaDescription, container,
                 headings, fallbackContent, result, removed, harness, unsupported, ui>>

\* The bodies of the requests: not JSON, null, or an object with or without url.
RequestUrls ==
  { S(""), S("not a url"), S("example.com"), S("http://"), S("https://exa mple.com"),
    S("https://example.com"), S(" HTTP://example.org/page?x=1 "), S("mailto:a@b.c") }

Requests ==
  { [body |-> "invalid", url |-> None], [body |-> "null", url |-> None],
    [body |-> "object", url |-> None] }
    \cup { [body |-> "object", url |-> Some(u)] : u \in RequestUrls }

\* The pages the fetched URLs answer with.
RoutePages == { Page(h, b) : h \in PageHeads, b \in PageBlocks \cup {<<>>} }

InitRoute ==
  \E req \in Requests, page \in RoutePages, code \in FailureStatuses \cup {200, 204, 0} :
    /\ (req.url # None /\ ~Fetchable(req.url[1])) => code = 0
    /\ code = 0 => page = Page(<<>>, <<>>)
    /\ pc = "post"
    /\ request = Some(req)
    /\ response = None
    /\ html = page
    /\ status = code
    /\ doc = <<>>
    /\ metaTitle = None
    /\ metaDescription = None
    /\ container = 0
    /\ headings = <<>>
    /\ fallbackContent = None
    /\ result = None
    /\ removed = <<>>
    /\ unsupported = {}
    /\ HomeIdle
    /\ text = <<>>
    /\ cleaned = <<>>

NextRoute ==
  \/ Post
  \/ Fetch
  \/ ExtractMeta
  \/ RemoveNoise
  \/ FindContainer
  \/ ExtractHeadings
  \/ Fallback
  \/ Return
  \/ Respond

SpecRoute == InitRoute /\ [][NextRoute]_vars

----------------------------------------------------------------------------
(* Claims about the route and the failed fetch, under SpecRoute *)

\* extractSEOContent was called and its fetch has answered or rejected.
Fetched == pc \notin {"post", "fetch"} /\ ~(pc = "responded" /\ result = None)

\* C15: when the fetched response is not a 2xx one, extractSEOContent throws
\* one error whose message holds the status code; the page is not parsed, no
\* metadata, noise, container or extraction step runs, no record is produced,
\* and POST answers with that message.
FailedFetchStopsExtraction ==
  (Fetched /\ status # 0 /\ (status < 200 \/ status > 299)) =>
    /\ pc \in {"failed", "responded"}
    /\ result # None
    /\ DOMAIN result[1] = {"error"}
    /\ includes(result[1].error, Decimal(status))
    /\ doc = <<>>
    /\ metaTitle = None /\ metaDescription = None
    /\ removed = <<>>
    /\ container = 0
    /\ headings = <<>> /\ fallbackContent = None
    /\ pc = "responded" => response = ErrorResponse(500, result[1].error)

\* POST has answered a request whose page was answered with status 404.
NotFoundAnswered ==
  /\ pc = "responded"
  /\ status = 404
  /\ result # None
  /\ html # Page(<<>>, <<>>)
  /\ response[1].status = 500

\* The request has a url that is present, not empty and parses as a URL.
WellFormedUrl ==
  /\ request # None
  /\ request[1].url # None
  /\ request[1].url # Some(<<>>)
  /\ ParsesAsURL(request[1].url[1])

\* C16: a request whose body has no url, an empty url, or a url that does not
\* parse is answered with status 400 and an error message without
\* extractSEOContent being called; extractSEOContent is called only for a
\* url that is present and parses.
PostValidatesBeforeExtracting ==
  request # None =>
    /\ (~WellFormedUrl /\ pc # "post") =>
         /\ pc = "responded"
         /\ result = None /\ doc = <<>>
         /\ response # None
         /\ response[1].status = 400
         /\ response[1].body.error # <<>>
    /\ (pc \notin {"post", "responded"} \/ result # None) => WellFormedUrl

----------------------------------------------------------------------------
(* Pages with the sources of the metadata present, empty or absent *)

\* <meta a="v" content="c">
Meta(a, v, c) == <<WithAttr(WithAttr(El("meta"), a, v), "content", c)>>

TitleBlocks == { <<>>, ET("title", " Page Title \n"), ET("title", "  ") }

OgTitleBlocks ==
  { <<>>, Meta("property", "og:title", "OG Title"),
    <<WithAttr(El("meta"), "property", "og:title")>> }

TwitterTitleBlocks == { <<>>, Meta("name", "twitter:title", " Card Title ") }

DescriptionBlocks ==
  { <<>>, Meta("name", "description", " A description. "),
    Meta("property", "og:description", "OG description.")
      \o Meta("name", "twitter:description", "Card description.") }

\* Bodies: the first h1 plain, empty, or inside an element the noise filter
\* removes; an inline image with a title of its own.
MetaBodies ==
  { <<>>,
    ET("h1", " Heading One "),
    ET("h1", " ") \o ET("h1", "Second"),
    E(El("nav"), ET("h1", "Site Name") \o Meta("name", "description", "Site description."))
      \o ET("h1", "Heading One"),
    E(El("header"), ET("h1", "Site Name")),
    E(El("svg"), ET("title", "Icon")) \o ET("h1", "Heading One") }

MetaPages ==
  { Page(t \o og \o tw \o d, b) :
      t \in TitleBlocks, og \in OgTitleBlocks, tw \in TwitterTitleBlocks,
      d \in DescriptionBlocks, b \in MetaBodies }

InitMeta == \E page \in MetaPages : Start(page, 200)

SpecMeta == InitMeta /\ [][Next]_vars

----------------------------------------------------------------------------
(* Claims about the metadata, under SpecMeta *)

\* The first member of set, 0 when it is empty.
FirstIn(set) == IF set = {} THEN 0 ELSE CHOOSE i \in set : \A j \in set : i <= j

\* The trimmed text of the title element of the document's head.
DocumentTitleText ==
  LET titles == {j \in Children(html, 2) : html[j].tag = "title"}
  IN  IF titles = {} THEN <<>> ELSE trim(Text(html, FirstIn(titles)))

\* The trimmed content of the first meta element whose attribute a is v.
MetaContentText(a, v) ==
  LET metas == {j \in 1..Len(html) : html[j].tag = "meta" /\ html[j][a] = Some(S(v))}
  IN  IF metas = {} THEN <<>> ELSE trim(AttrOr(html[FirstIn(metas)], "content"))

\* The trimmed text of the first h1 of the document.
FirstH1Text ==
  LET h1s == {j \in 1..Len(html) : html[j].tag = "h1"}
  IN  IF h1s = {} THEN <<>> ELSE trim(Text(html, FirstIn(h1s)))

TitleSources ==
  << DocumentTitleText, MetaContentText("property", "og:title"),
     MetaContentText("name", "twitter:title"), FirstH1Text >>

\* C17: metaTitle is the first non-empty value, after trimming, among the
\* document title element's text, the Open-Graph title content, the twitter
\* title content and the first h1's text, in this order; it is null exactly
\* when all four are empty or absent.
MetaTitleIsFirstNonEmptySource ==
  Returned =>
    LET nonEmpty == {k \in 1..4 : TitleSources[k] # <<>>}
    IN  IF nonEmpty = {} THEN result[1].metaTitle = None
        ELSE result[1].metaTitle = Some(TitleSources[FirstIn(nonEmpty)])

\* The first h1 of the fetched page is inside a nav or a header, and the
\* page has no title element and no title meta element.
FirstH1IsNoise ==
  /\ \A j \in 1..Len(html) :
       /\ html[j].tag # "title"
       /\ html[j].property # Some(S("og:title"))
       /\ html[j].name # Some(S("twitter:title"))
  /\ \E j \in 1..Len(html) :
       /\ html[j].tag = "h1"
       /\ \A k \in 1..(j - 1) : html[k].tag # "h1"
       /\ \E a \in Ancestors(html, j) : html[a].tag \in {"nav", "header"}

\* C18: the metadata is read from the tree as parsed, before the noise filter
\* changes it: metaTitle and metaDescription are those of the unmutated tree,
\* and a first h1 inside a nav or header gives metaTitle its text although no
\* heading of the record has it.
MetadataReadBeforeNoiseFilter ==
  /\ pc = "noise" => doc = html /\ removed = <<>>
  /\ pc \in {"noise", "container", "headings", "fallback", "return", "done"} =>
       /\ metaTitle = extractMetaTitle(html)
       /\ metaDescription = extractMetaDescription(html)
  /\ (Returned /\ FirstH1IsNoise) =>
       /\ result[1].metaTitle = Some(FirstH1Text)
       /\ \A k \in 1..Len(result[1].headings) :
            result[1].headings[k].text # FirstH1Text
       /\ \A j \in 1..Len(doc) : doc[j].tag = "h1" => trim(Text(doc, j)) # FirstH1Text

\* A record returned with the title and the description of a nav that the
\* noise filter removed.
NoiseHeadingIsTitle ==
  /\ Returned
  /\ FirstH1IsNoise
  /\ result[1].metaTitle = Some(S("Site Name"))
  /\ result[1].metaDescription = Some(S("Site description."))
  /\ \A j \in 1..Len(doc) : doc[j].tag # "nav"

----------------------------------------------------------------------------
(* Claims about where a section ends, under SpecWalk *)

\* Element j of the filtered tree is a heading that is collected.
IsCollectedHeading(j) ==
  /\ doc[j].tag \in {"h1", "h2", "h3", "h4"}
  /\ cleanText(Text(doc, j)) # <<>>
  /\ ~isNoiseHeading(cleanText(Text(doc, j)))

\* The element siblings that follow element from, in document order.
SiblingsAfter(from) ==
  {j \in (from + 1)..Len(doc) : IsElement(doc, j) /\ Parent(doc, j) = Parent(doc, from)}

\* Element j has one of the wrapper classes.
IsHeadingWrapper(j) == IncludesAny(AttrOr(doc[j], "class"), HeadingWrapperPattern)

\* Element j is a wrapper that contains a heading of level lvl or above.
WrapsHeadingUpTo(j, lvl) ==
  /\ IsHeadingWrapper(j)
  /\ \E k \in Descendants(doc, j) : HeadingLevel(doc[k].tag) \in 1..lvl

\* The content of a heading whose walk starts after element from, stops
\* before the first sibling in ends and leaves out the siblings in skipped:
\* the fragments of the other siblings, stripped, duplicates dropped.
ContentBetween(from, ends, skipped) ==
  LET sibs == SiblingsAfter(from)
      visited == InOrder({j \in sibs : /\ \A k \in sibs : k <= j => k \notin ends
                                       /\ j \notin skipped})
      frags == FragmentsOf(visited)
      stripped == [i \in 1..Len(frags) |-> Stripped(frags[i])]
      NotEmpty(str) == str # <<>>
  IN  Unique(SelectSeq(stripped, NotEmpty), 1)

\* C19: the content of a collected heading of level L is gathered up to the
\* next sibling that is a collected heading of level <= L (or a mw-heading
\* wrapper of one), or to the end of the sibling run; a sibling heading that
\* was discarded as noise or as empty does not end the section, and what
\* follows it still belongs to the heading.
SectionEndsAtCollectedHeading ==
  HeadingsExtracted =>
    \A n \in 1..Len(headings) :
      LET h == CollectedHeadings[n]
          lvl == HeadingLevel(doc[h].tag)
          sibs == SiblingsAfter(WalkStart(h))
          wrappers == {j \in sibs : includes(AttrOr(doc[j], "class"), S("mw-heading"))}
          ends == {j \in sibs :
                     \/ IsCollectedHeading(j) /\ HeadingLevel(doc[j].tag) <= lvl
                     \/ j \in wrappers /\ EndsSection(j, lvl)}
      IN  headings[n].content = ContentBetween(WalkStart(h), ends, wrappers)

\* C20: for a heading of level L inside a heading wrapper of any of the
\* wrapper classes, the walk starts after the wrapper and stops at the first
\* sibling that is a heading of level <= L or a wrapper containing one:
\* nothing of that sibling or after it is in the content; the wrappers before
\* it, which contain only lower-level headings, are skipped.
WrappedSectionEndsAtWrapper ==
  HeadingsExtracted =>
    \A n \in 1..Len(headings) :
      LET h == CollectedHeadings[n]
          lvl == HeadingLevel(doc[h].tag)
          wrapper == Parent(doc, h)
          sibs == SiblingsAfter(wrapper)
          ends == {j \in sibs : \/ HeadingLevel(doc[j].tag) \in 1..lvl
                                \/ WrapsHeadingUpTo(j, lvl)}
          wrappers == {j \in sibs : IsHeadingWrapper(j)}
      IN  (wrapper # 0 /\ IsHeadingWrapper(wrapper)) =>
            headings[n].content = ContentBetween(wrapper, ends, wrappers)

----------------------------------------------------------------------------
(* Pages with a heading followed by one table *)

MaxRows == 3

TableRowBlocks ==
  { E(El("tr"), ET("td", "A") \o ET("td", " B [1] ")),
    E(El("tr"), ET("th", "Name") \o ET("td", " ")),
    E(El("tr"), ET("td", " ") \o ET("td", "[edit]")),
    E(El("tr"), <<>>) }

\* <table><tbody>rows</tbody></table>
Table(rows) == E(El("table"), E(El("tbody"), Join(rows, <<>>)))

TablePages ==
  { Page(<<>>, h \o Table(rows)) :
      h \in {ET("h2", "Title"), ET("h2", "Contents")},
      rows \in SeqsUpTo(TableRowBlocks, MaxRows) }

InitTable == \E page \in TablePages : Start(page, 200)

SpecTable == InitTable /\ [][Next]_vars

----------------------------------------------------------------------------
(* Claims about tables, under SpecTable *)

\* The cleaned texts of the cells of row tr that are not empty, joined with
\* the separator.
RowText(tr) ==
  LET cells == InOrder({j \in Descendants(doc, tr) : doc[j].tag \in {"th", "td"}})
      texts == [k \in 1..Len(cells) |-> cleanText(Text(doc, cells[k]))]
      NotEmpty(str) == str # <<>>
  IN  Join(SelectSeq(texts, NotEmpty), S(" | "))

\* The texts of the rows of the page's table that have a non-empty cell, in
\* document order.
NonEmptyRowTexts ==
  LET trs == InOrder({j \in 1..Len(doc) : doc[j].tag = "tr"})
      texts == [k \in 1..Len(trs) |-> RowText(trs[k])]
      NotEmpty(str) == str # <<>>
  IN  SelectSeq(texts, NotEmpty)

\* C21: a table after a heading gives the heading one content
\* fragment per non-empty row, so n fragments for n non-empty rows (equal
\* rows once), and nothing for the rows without a non-empty cell.
TableGivesFragmentPerRow ==
  (HeadingsExtracted /\ headings # <<>>) =>
    headings[1].content = Unique(NonEmptyRowTexts, 1)

----------------------------------------------------------------------------
(* Pages for the class-pattern rule and for selectors that throw *)

MaxFilterBlocks == 2

FilterBlocks ==
  { E(WithClass(El("div"), "site-widget"), ET("p", "w")),
    E(WithClass(El("div"), "Widget-Content"), ET("p", "k")),
    E(WithId(El("div"), "page-widget"), ET("p", "i")),
    E(WithId(WithClass(El("div"), "box"), "gdpr"), T("g")),
    E(WithId(El("div"), "widget-content"), T("c")),
    E(El("nav"), ET("a", "Home")),
    E(WithClass(El("div"), "menu"), T("m")),
    E(WithClass(El("ul"), "toc"), ET("li", "x")),
    E(WithClass(El("section"), "main-content"),
      E(WithClass(El("div"), "Social"), T("s")) \o ET("p", "Text")),
    ET("p", "Text") }

FilterPages ==
  { Page(<<>>, Join(bs, <<>>)) : bs \in SeqsUpTo(FilterBlocks, MaxFilterBlocks) }

\* The selectors of the list that the selector engine may reject.
UnsupportedSets ==
  LET ks == {k \in 1..Len(NOISE_SELECTORS) :
               NOISE_SELECTORS[k] \in {Tag("nav"), Cls("menu"), Cls("toc")}}
  IN  {{}, ks} \cup {{k} : k \in ks}

InitFilter ==
  \E page \in FilterPages, bad \in UnsupportedSets :
    /\ pc = "fetch"
    /\ request = None
    /\ response = None
    /\ html = page
    /\ status = 200
    /\ doc = <<>>
    /\ metaTitle = None
    /\ metaDescription = None
    /\ container = 0
    /\ headings = <<>>
    /\ fallbackContent = None
    /\ result = None
    /\ removed = <<>>
    /\ unsupported = bad
    /\ HomeIdle
    /\ text = <<>>
    /\ cleaned = <<>>

SpecFilter == InitFilter /\ [][NextNoise]_vars

----------------------------------------------------------------------------
(* Claims about the rules of the noise filter, under SpecFilter *)

FilterDone == Len(removed) >= 1

\* The attribute value v, in lower case, contains one of the noise
\* substrings and does not contain "content".
NamesNoise(v) ==
  /\ \E k \in 1..Len(noisePatterns) : includes(toLowerCase(v), noisePatterns[k])
  /\ ~includes(toLowerCase(v), S("content"))

StaticHit(t, i) ==
  \E k \in (1..Len(NOISE_SELECTORS)) \ unsupported : Matches(t, i, NOISE_SELECTORS[k])

HiddenHit(t, i) ==
  \/ Matches(t, i, AttrHas("hidden"))
  \/ Matches(t, i, AttrSub("style", "display: none"))
  \/ Matches(t, i, AttrSub("style", "display:none"))
  \/ Matches(t, i, AttrEq("aria-hidden", "true"))

ClassHit(t, i) == IsElement(t, i) /\ t[i].class # None /\ NamesNoise(t[i].class[1])

IdHit(t, i) == IsElement(t, i) /\ t[i].id # None /\ NamesNoise(t[i].id[1])

\* The nodes of the fetched page outside every subtree whose root satisfies hit.
Outside(hit(_, _)) ==
  {i \in 1..Len(html) : \A a \in Ancestors(html, i) \cup {i} : ~hit(html, a)}

RemovedByClassOrId(t, i) ==
  StaticHit(t, i) \/ HiddenHit(t, i) \/ ClassHit(t, i) \/ IdHit(t, i)

RemovedByClass(t, i) == StaticHit(t, i) \/ HiddenHit(t, i) \/ ClassHit(t, i)

\* C22: beyond the static list, every element whose class or id contains a
\* noise substring (case-insensitively) is removed, unless that value also
\* contains "content": the filtered tree is the page without the subtrees of
\* the elements the static list, the hidden rules or this rule name.
ClassOrIdPatternRemoved ==
  FilterDone =>
    doc = KeepFrom(html, Outside(RemovedByClassOrId), 1)

\* C22, amended: the rule reads the class attribute only. The filtered tree
\* is the page without the subtrees of the elements that the static list or
\* the hidden rules match or whose class contains a noise substring and not
\* "content"; an id that contains a noise substring removes nothing.
ClassPatternRemoved ==
  FilterDone =>
    doc = KeepFrom(html, Outside(RemovedByClass), 1)

\* The filter has run on a page with an element whose id alone names noise
\* and with an element whose class names noise: the first is kept, the
\* second is gone.
IdPatternKept ==
  /\ FilterDone
  /\ \E i \in 1..Len(doc) : IdHit(doc, i) /\ doc[i].class = None
  /\ \E i \in 1..Len(html) :
       /\ ClassHit(html, i) /\ ~StaticHit(html, i)
       /\ \A j \in 1..Len(doc) : doc[j] # html[i]

\* C25: a selector of the static list that throws is skipped: the pass
\* completes, and no element is left that a selector that did not throw, the
\* class rule or a hidden rule matches.
ThrowingSelectorSkipped ==
  FilterDone =>
    /\ pc = "container"
    /\ \A i \in 1..Len(doc) : ~RemovedByClass(doc, i)

\* The filter has run with a selector that throws; an element only that
\* selector matches is kept and an element a later selector matches is gone.
SelectorThrewAndLaterApplied ==
  /\ FilterDone
  /\ unsupported # {}
  /\ \E i \in 1..Len(doc) :
       \E k \in unsupported : Matches(doc, i, NOISE_SELECTORS[k])
  /\ \E i \in 1..Len(html), k \in 1..Len(NOISE_SELECTORS) :
       /\ \A u \in unsupported : u < k
       /\ Matches(html, i, NOISE_SELECTORS[k])
       /\ ~ClassHit(html, i)
       /\ \A j \in 1..Len(doc) : doc[j] # html[i]

----------------------------------------------------------------------------
(* The tree after the noise filter, under SpecWalk *)

\* C24: the tree is mutated only by the noise filter: every step other than
\* the parse of the fetched page and the noise filter (metadata extraction,
\* container selection, heading extraction with its content formatting,
\* fallback extraction, the return) leaves the tree as it was, node for node.
TreeReadOnlyAfterFilter ==
  [][pc \notin {"fetch", "noise"} => doc' = doc]_vars

\* A record was returned whose heading has content formatted from an element
\* with a list nested in it, and the list is still in the tree.
NestedListsStillInTree ==
  /\ pc = "done"
  /\ headings # <<>>
  /\ headings[1].content # <<>>
  /\ \E i \in 1..Len(doc) :
       /\ doc[i].tag \in TextContainerTags \cup {"li"}
       /\ \E j \in Descendants(doc, i) : doc[j].tag \in ListTags

----------------------------------------------------------------------------
(* The normal form of cleaned text, under SpecClean *)

\* s holds a bracketed editorial marker: [edit], [citation needed], [note N]
\* or [N], in any letter case for the first three.
HasMarker(s) ==
  \E i \in 1..Len(s) :
    \/ LitMatch(s, i, S("[edit]"), TRUE) > 0
    \/ LitMatch(s, i, S("[citation needed]"), TRUE) > 0
    \/ NumMatch(s, i, S("[note "), TRUE) > 0
    \/ NumMatch(s, i, S("["), FALSE) > 0

NormalForm(s) ==
  /\ s # <<>> => s[1] \notin WS /\ s[Len(s)] \notin WS
  /\ \A i \in 1..(Len(s) - 1) : ~(s[i] \in WS /\ s[i + 1] \in WS)
  /\ ~HasMarker(s)

\* C26: the result of cleanText is in normal form for every input: no
\* whitespace at either end, no run of two or more whitespace characters, and
\* no bracketed editorial marker.
CleanTextNormalForm ==
  Len(cleaned) >= 1 => NormalForm(cleaned[1])

----------------------------------------------------------------------------
(* Pages with article-like elements: paragraphs inside <main><article>, or  *)
(* a run of elements of class story                                         *)

MaxStories == 11

\* n elements of class story, each with more than fifty characters of text.
StoryRun(n) ==
  Join([k \in 1..n |-> E(WithClass(El("div"), "story"), LongParagraph(k) \o T(" and more"))],
       <<>>)

ArticlePages ==
  { Page(<<>>, Wrapped("main article", ParagraphRun(n)) \o Extras(chosen)) :
      n \in {1, 2, MaxParagraphs}, chosen \in SUBSET (1..Len(ExtraBlocks)) }
    \cup { Page(<<>>, StoryRun(n) \o Extras(chosen)) :
             n \in {MaxArticles, MaxStories}, chosen \in SUBSET (1..2) }

InitArticles == \E page \in ArticlePages : Start(page, 200)

SpecArticles == InitArticles /\ [][Next]_vars

----------------------------------------------------------------------------
(* Fallback strategy 1, under SpecArticles *)

\* The text of element j is long enough for strategy 1.
ArticleEligible(j) == Len(cleanText(Text(doc, j))) > ArticleMinText

\* The entry of element j: its cleaned text cut at 500 characters, with an
\* ellipsis when it was cut.
ArticleEntry(j) ==
  LET str == cleanText(Text(doc, j))
  IN  IF Len(str) > ArticleMaxText
        THEN SubSeq(str, 1, ArticleMaxText) \o S("...")
        ELSE str

\* The entries of the elements in among, in document order, the first ten
\* at most, joined by blank lines.
ArticleEntries(among) ==
  LET order == InOrder(among)
      n == IF Len(order) > MaxArticles THEN MaxArticles ELSE Len(order)
  IN  Join([k \in 1..n |-> ArticleEntry(order[k])], S("\n\n"))

FallbackRan == pc \in {"return", "done"} /\ headings = <<>>

\* The eligible elements below the container that selector k matches.
EligibleFor(k) ==
  {j \in InContainer : Matches(doc, j, articleSelectors[k]) /\ ArticleEligible(j)}

\* C27: strategy 1 collects every element below the container that matches
\* any of the article-like selectors and has more than 50 characters of
\* cleaned text, cuts each at 500 characters with an ellipsis if and only if
\* it was cut, and returns the first ten at most, joined by blank lines, with
\* source "article-containers".
ArticlesOfAllSelectorsCollected ==
  (FallbackRan /\ ArticleOutput) =>
    fallbackContent =
      Some([source |-> "article-containers",
            text |-> ArticleEntries(UNION {EligibleFor(k) : k \in 1..Len(articleSelectors)})])

\* C27, amended: strategy 1 tries the selectors article, .article, .post,
\* .entry, .story, .item in this order and stops at the first that matches an
\* element with more than 50 characters of cleaned text below the container;
\* it collects the elements of that one selector, cut and joined as above.
ArticlesOfFirstSelectorCollected ==
  FallbackRan =>
    LET ks == {k \in 1..Len(articleSelectors) : EligibleFor(k) # {}}
        first == CHOOSE k \in ks : \A n \in ks : k <= n
    IN  ks # {} =>
          fallbackContent =
            Some([source |-> "article-containers",
                  text |-> ArticleEntries(EligibleFor(first))])

\* Strategy 1 answered for a page where two of the selectors match eligible
\* elements that are not the same.
TwoArticleSelectorsMatch ==
  /\ FallbackRan
  /\ fallbackContent # None
  /\ fallbackContent[1].source = "article-containers"
  /\ \E k, n \in 1..Len(articleSelectors) :
       EligibleFor(k) # {} /\ EligibleFor(n) # {} /\ EligibleFor(k) # EligibleFor(n)

\* Strategy 1 cut an entry at 500 characters.
ArticleEntryCut ==
  /\ FallbackRan
  /\ \E j \in InContainer, k \in 1..Len(articleSelectors) :
       /\ j \in EligibleFor(k)
       /\ Len(cleanText(Text(doc, j))) > ArticleMaxText

\* Strategy 1 dropped the entries after the tenth.
MoreThanTenArticles ==
  /\ FallbackRan
  /\ \E k \in 1..Len(articleSelectors) : Cardinality(EligibleFor(k)) > MaxArticles

----------------------------------------------------------------------------
(* Pages of text blocks: td, span and a elements and nothing else with text *)

MaxTextBlockCount == 2

Cell(str) == E(El("table"), E(El("tr"), ET("td", str)))

TextBlockBlocks ==
  { ET("span", "Home"),
    ET("a", " Next "),
    ET("a", "1234567890123456789012345"),
    ET("span", "12345 67890 12345 67890"),
    ET("span", "A span of twenty-seven chars"),
    Cell("Exactly twenty chars"),
    Cell("home home home home home"),
    ET("span", "previous page of the results"),
    E(El("span"), Letters(BlockMaxText)),
    E(El("span"), Letters(BlockMaxText - 1)) }

TextBlockPages ==
  { Page(<<>>, Join(bs, <<>>)) : bs \in SeqsUpTo(TextBlockBlocks, MaxTextBlockCount) }

InitTextBlocks == \E page \in TextBlockPages : Start(page, 200)

SpecTextBlocks == InitTextBlocks /\ [][Next]_vars

----------------------------------------------------------------------------
(* Fallback strategy 3, under SpecTextBlocks *)

AllDigits(str) == str # <<>> /\ \A k \in 1..Len(str) : str[k] \in Digits

\* The cleaned texts of the td, span and a elements below the container that
\* have more than 20 and fewer than 500 characters and are not made of digits
\* alone, in document order.
AcceptedBlocks ==
  LET order == InOrder({j \in InContainer : doc[j].tag \in {"td", "span", "a"}})
      texts == [k \in 1..Len(order) |-> cleanText(Text(doc, order[k]))]
  IN  SelectSeq(texts, LAMBDA str : /\ Len(str) > BlockMinText
                                      /\ Len(str) < BlockMaxText
                                      /\ ~AllDigits(str))

\* C29: strategy 3 accepts a text block only if its cleaned length is
\* strictly between 20 and 500, and among the texts of that length the
\* navigation blacklist rejects exactly those made of digits alone: no
\* navigation word excludes a block of eligible length.
OnlyNumericBlocksRejected ==
  (FallbackRan /\ ~ArticleOutput /\ ~ParagraphOutput) =>
    IF AcceptedBlocks = <<>> THEN fallbackContent = None
    ELSE fallbackContent =
           Some([source |-> "text-blocks",
                 text |-> Join(Slice(Unique(AcceptedBlocks, 1), MaxTextBlocks), <<"\n">>)])

\* Strategy 3 answered for a page with a block of eligible length that starts
\* with a navigation word and with a block of digits of eligible length.
NavigationWordInAcceptedBlock ==
  /\ FallbackRan
  /\ fallbackContent # None
  /\ fallbackContent[1].source = "text-blocks"
  /\ \E k \in 1..Len(AcceptedBlocks) :
       \E w \in NavigationTexts : HasAt(AcceptedBlocks[k], 1, w, TRUE)
  /\ \E j \in InContainer :
       /\ doc[j].tag = "a"
       /\ AllDigits(cleanText(Text(doc, j)))
       /\ Len(cleanText(Text(doc, j))) > BlockMinText

----------------------------------------------------------------------------
(* The page component Home: the form, handleSubmit and the requests it has  *)
(* in flight                                                                *)

MaxSubmits == 3

\* The variables of the route and of the extractor.
server ==
  <<pc, request, response, html, status, doc, metaTitle, metaDescription, container,
    headings, fallbackContent, result, removed, unsupported, text, cleaned>>

\* What the user types into the input.
TypedUrls == { <<>>, S("x"), S("https://example.com") }

\* The responses fetch('/api/extract') resolves with: ok is response.ok, json
\* the value response.json() resolves with, None when the body is not JSON
\* (the answer of a gateway in front of the route).
Responses ==
  { [ok |-> TRUE,
     json |-> Some([metaTitle |-> t, metaDescription |-> None, headings |-> <<>>,
                    fallbackContent |-> None])] : t \in {None, Some(S("Title"))} }
    \cup { [ok |-> FALSE, json |-> Some([error |-> m])] :
             m \in { S("URL is required"), S("Failed to fetch URL: 404 Not Found"), <<>> } }
    \cup { [ok |-> FALSE, json |-> None] }

\* calls without its member i.
Without(i) == SubSeq(calls, 1, i - 1) \o SubSeq(calls, i + 1, Len(calls))

\* onChange={(e) => setUrl(e.target.value)}
SetUrl(v) ==
  /\ pc = "home"
  /\ v # home.url
  /\ home' = [home EXCEPT !.url = v]
  /\ UNCHANGED <<calls, submits, server>>

\* The form submitted with the button enabled or not: handleSubmit up to
\* await fetch(...).
SubmitWhileLoading ==
  /\ pc = "home"
  /\ submits < MaxSubmits
  /\ home.url # <<>>
  /\ home' = [home EXCEPT !.loading = TRUE, !.error = None, !.results = None]
  /\ calls' = Append(calls, [at |-> "fetch", url |-> home.url])
  /\ submits' = submits + 1
  /\ UNCHANGED server

\* The form submitted through its button, which is disabled while loading or
\* without a url: handleSubmit up to await fetch(...).
Submit ==
  /\ pc = "home"
  /\ submits < MaxSubmits
  /\ ~(home.loading \/ home.url = <<>>)
  /\ home' = [home EXCEPT !.loading = TRUE, !.error = None, !.results = None]
  /\ calls' = Append(calls, [at |-> "fetch", url |-> home.url])
  /\ submits' = submits + 1
  /\ UNCHANGED server

\* fetch rejects: catch, then finally.
FetchRejects(i) ==
  /\ pc = "home"
  /\ calls[i].at = "fetch"
  /\ home' = [home EXCEPT !.error = Some(S("Failed to fetch")), !.loading = FALSE]
  /\ calls' = Without(i)
  /\ UNCHANGED <<submits, server>>

\* fetch resolves with the response r: handleSubmit up to await response.json().
FetchResolves(i, r) ==
  /\ pc = "home"
  /\ calls[i].at = "fetch"
  /\ calls' = [calls EXCEPT ![i] = [at |-> "json", response |-> r]]
  /\ UNCHANGED <<home, submits, server>>

\* response.json() settles: the rest of the try block or the catch block,
\* then finally.
JsonSettles(i) ==
  /\ pc = "home"
  /\ calls[i].at = "json"
  /\ LET r == calls[i].response
         data == r.json[1]
     IN  home' =
           IF r.json = None
             THEN [home EXCEPT !.error = Some(S("Unexpected token < in JSON at position 0")),
                               !.loading = FALSE]
           ELSE IF ~r.ok
             THEN [home EXCEPT !.error = Some(IF "error" \in DOMAIN data /\ data.error # <<>>
                                                THEN data.error
                                                ELSE S("Failed to extract content")),
                               !.loading = FALSE]
           ELSE [home EXCEPT !.results = Some(data), !.loading = FALSE]
  /\ calls' = Without(i)
  /\ UNCHANGED <<submits, server>>

InitHome ==
  /\ pc = "home"
  /\ request = None
  /\ response = None
  /\ html = <<>>
  /\ status = 200
  /\ doc = <<>>
  /\ metaTitle = None
  /\ metaDescription = None
  /\ container = 0
  /\ headings = <<>>
  /\ fallbackContent = None
  /\ result = None
  /\ removed = <<>>
  /\ unsupported = {}
  /\ text = <<>>
  /\ cleaned = <<>>
  /\ HomeIdle

NextHome ==
  \/ \E v \in TypedUrls : SetUrl(v)
  \/ Submit
  \/ \E i \in 1..Len(calls) : FetchRejects(i)
  \/ \E i \in 1..Len(calls), r \in Responses : FetchResolves(i, r)
  \/ \E i \in 1..Len(calls) : JsonSettles(i)

SpecHome == InitHome /\ [][NextHome]_vars

----------------------------------------------------------------------------
(* The request flow of the page, under SpecHome *)

\* C30: a submission sets loading and clears error and results; while a
\* request is in flight error and results stay null; when it has finished,
\* loading is false and exactly one of results and error is not null,
\* whatever the submissions before it were.
RequestFlow ==
  /\ Len(calls) <= 1
  /\ calls # <<>> =>
       home.loading /\ home.error = None /\ home.results = None
  /\ (calls = <<>> /\ submits > 0) =>
       /\ ~home.loading
       /\ (home.results # None) # (home.error # None)
  /\ submits = 0 => ~home.loading /\ home.error = None /\ home.results = None

\* A second or later submission has finished with results.
ResultsAfterEarlierSubmission ==
  /\ submits >= 2
  /\ calls = <<>>
  /\ home.results # None
  /\ home.url # <<>>

----------------------------------------------------------------------------

====
